---------------------------- MODULE Spec2Model ----------------------------
(***************************************************************************)
(* A model of the uiua compiler front end (src/src/compile.rs), of the     *)
(* packed Function handles (src/src/function.rs) and of the looping and    *)
(* grouping modifiers (src/src/algorithm/loops.rs).                        *)
(*                                                                         *)
(* Spec      : a Compiler driven by load / eval / finish calls.            *)
(* SpecLoops : partition / unpartition / group / ungroup on bounded data.  *)
(***************************************************************************)
EXTENDS Integers, Sequences, FiniteSets, TLC

VARIABLES
    global_instrs,          \* Compiler.global_instrs
    in_progress_functions,  \* Compiler.in_progress_functions
    bindings,               \* Compiler.bindings, a set of <<Ident, Bound>>
    errors,                 \* Compiler.errors
    assembly,               \* Compiler.assembly: [instrs, start, function_ids, spans]
    vm,                     \* Compiler.vm: [globals, stack]
    phase,                  \* "open" until finish consumes the Compiler
    budget,                 \* items that may still be compiled (bound)
    last,                   \* history: the call just made and the state before it
    buffered,               \* history: global instrs kept by successful loads
    lp                      \* state of the modifier machine (SpecLoops)

vars == <<global_instrs, in_progress_functions, bindings, errors, assembly, vm,
          phase, budget, last, buffered, lp>>

compilerVars == <<global_instrs, in_progress_functions, bindings, errors, assembly,
                  vm, phase, budget, last, buffered>>

(***************************************************************************)
(* Bounds                                                                  *)
(***************************************************************************)
\* items compiled over the whole life of one Compiler
MaxItems == 3
\* items of one load / eval input
MaxInput == 2
\* instructions one compile-time run may execute before it is cut off
MaxSteps == 40

(***************************************************************************)
(* Function, FunctionId, Value, Instr, Bound                               *)
(***************************************************************************)
Code(k) == [tag |-> "Code", k |-> k, prim |-> "", sel |-> <<>>]
Primitive(p) == [tag |-> "Primitive", k |-> 0, prim |-> p, sel |-> <<>>]
SelectorFn(s) == [tag |-> "Selector", k |-> 0, prim |-> "", sel |-> s]

Named(name) == [tag |-> "Named", name |-> name, span |-> 0, prim |-> ""]
Anonymous(span) == [tag |-> "Anonymous", name |-> <<>>, span |-> span, prim |-> ""]
PrimitiveId(p) == [tag |-> "Primitive", name |-> <<>>, span |-> 0, prim |-> p]

NoFunction == [tag |-> "None", k |-> 0, prim |-> "", sel |-> <<>>]
NumVal(n) == [t |-> "num", n |-> n, f |-> NoFunction]
FnVal(f) == [t |-> "fn", n |-> 0, f |-> f]
ArrVal(n) == [t |-> "arr", n |-> n, f |-> NoFunction]
DefaultVal == ArrVal(0)
is_function(v) == v.t = "fn"

Instr(op, val, idx, txt) == [op |-> op, val |-> val, idx |-> idx, txt |-> txt]
Push(v) == Instr("Push", v, 0, <<>>)
Constant(i) == Instr("Constant", DefaultVal, i, <<>>)
Call(span) == Instr("Call", DefaultVal, span, <<>>)
Return == Instr("Return", DefaultVal, 0, <<>>)
BeginArray == Instr("BeginArray", DefaultVal, 0, <<>>)
EndArray(call, span) == Instr(IF call THEN "EndArrayCall" ELSE "EndArray", DefaultVal, span, <<>>)
\* the name is history only: Instr::BindGlobal carries nothing
BindGlobal(name) == Instr("BindGlobal", DefaultVal, 0, name)
CopyGlobal(i) == Instr("CopyGlobal", DefaultVal, i, <<>>)
Comment(kind) == Instr(kind, DefaultVal, 0, <<>>)

BoundPrimitive(p) == [tag |-> "Primitive", f |-> Primitive(p), index |-> 0]
BoundFunction(f) == [tag |-> "Function", f |-> f, index |-> 0]
BoundGlobal(i) == [tag |-> "Global", f |-> NoFunction, index |-> i]
BoundConstant(i) == [tag |-> "Constant", f |-> NoFunction, index |-> i]
BoundError == [tag |-> "Error", f |-> NoFunction, index |-> 0]

(***************************************************************************)
(* HashMap as a set of <<key, value>> pairs                                *)
(***************************************************************************)
contains_key(m, k) == \E p \in m : p[1] = k
get(m, k) == (CHOOSE p \in m : p[1] = k)[2]
insert(m, k, v) == {p \in m : p[1] # k} \cup {<<k, v>>}
keys(m) == {p[1] : p \in m}


(***************************************************************************)
(* Identifiers are sequences of characters                                 *)
(***************************************************************************)
UpperCase == {"F", "G"}
is_capitalized(ident) == Len(ident) > 0 /\ ident[1] \in UpperCase

SelectorLetters == <<"a", "b", "c", "d", "e">>
SelectorDigit(ch) == CHOOSE d \in 1..5 : SelectorLetters[d] = ch
\* a parse that does not look at the length of the string
selector_from_str_any_len(s) ==
    IF Len(s) = 0 \/ \E i \in 1..Len(s) : \A d \in 1..5 : SelectorLetters[d] # s[i]
    THEN <<>>
    ELSE [i \in 1..5 |-> IF i <= Len(s) THEN SelectorDigit(s[i]) ELSE 0]
\* Selector::from_str: the digits of a parsable name, <<>> for Err(())
selector_from_str(s) ==
    IF Len(s) = 0 \/ Len(s) > 5 \/ \E i \in 1..Len(s) : \A d \in 1..5 : SelectorLetters[d] # s[i]
    THEN <<>>
    ELSE [i \in 1..5 |-> IF i <= Len(s) THEN SelectorDigit(s[i]) ELSE 0]

\* Primitive::ALL with the identifier of each primitive (<<>>: it has none)
PrimitiveAll == {"Add", "Dup"}
PrimitiveIdent(p) == IF p = "Add" THEN <<"a", "d", "d">> ELSE <<>>
\* Primitive::from_name: primitives are also found by a name that is not their identifier
primitive_from_name(ident) ==
    IF ident = <<"d", "u", "p">> THEN "Dup"
    ELSE IF \E p \in PrimitiveAll : PrimitiveIdent(p) = ident /\ ident # <<>>
         THEN CHOOSE p \in PrimitiveAll : PrimitiveIdent(p) = ident
         ELSE ""
\* constants(): one built-in constant
ConstantNames == << <<"p", "i">> >>

(***************************************************************************)
(* The AST handed over by the parser                                       *)
(***************************************************************************)
Word(w, ok, ident, prim, body, span) ==
    [w |-> w, ok |-> ok, ident |-> ident, prim |-> prim, body |-> body, span |-> span, num |-> 0]
\* a literal that parses as f64, and one that does not
WNumber(n) == [Word("Number", TRUE, <<>>, "", <<>>, 0) EXCEPT !.num = n]
WBadNumber == Word("Number", FALSE, <<>>, "", <<>>, 0)
WIdent(ident) == Word("Ident", TRUE, ident, "", <<>>, 0)
WPrimitive(p) == Word("Primitive", TRUE, <<>>, p, <<>>, 0)
WFunc(span, body) == Word("Func", TRUE, <<>>, "", body, span)
WArray(body) == Word("Array", TRUE, <<>>, "", body, 0)
WStrand(body) == Word("Strand", TRUE, <<>>, "", body, 0)
WFuncArray(funcs) == Word("FuncArray", TRUE, <<>>, "", funcs, 0)
WModified(span, p, word) == Word("Modified", TRUE, <<>>, p, <<word>>, span)

ItemWords(words) == [item |-> "Words", name |-> <<>>, words |-> words]
ItemBinding(name, words) == [item |-> "Binding", name |-> name, words |-> words]
ItemComment == [item |-> "Comment", name |-> <<>>, words |-> <<>>]

(***************************************************************************)
(* The Compiler as a value, threaded through the compilation of one input  *)
(***************************************************************************)
push_instr(c, instr) ==
    IF c.in_progress_functions # <<>>
    THEN [c EXCEPT !.in_progress_functions[Len(c.in_progress_functions)] = Append(@, instr)]
    ELSE [c EXCEPT !.global_instrs = Append(@, instr)]

\* the spot is the length of spans before the push
push_call_span(c) == [c EXCEPT !.assembly.spans = @ + 1]

add_function_instrs(asm, instrs) ==
    [asm EXCEPT !.instrs = @ \o instrs, !.start = Len(asm.instrs) + Len(instrs)]
add_non_function_instrs(asm, instrs) == [asm EXCEPT !.instrs = @ \o instrs]
truncate(asm, len) ==
    [asm EXCEPT !.instrs = SubSeq(@, 1, IF len < Len(@) THEN len ELSE Len(@)), !.start = len]

\* if call { let span = self.push_call_span(span); self.push_instr(Instr::Call(span)) }
push_call(c, call) ==
    IF call THEN push_instr(push_call_span(c), Call(c.assembly.spans)) ELSE c

primitive(c, prim, call) == push_call(push_instr(c, Push(FnVal(Primitive(prim)))), call)

selector(c, sel, call) == push_call(push_instr(c, Push(FnVal(SelectorFn(sel)))), call)

BoundInstr(bound) ==
    CASE bound.tag = "Global" -> CopyGlobal(bound.index)
      [] bound.tag = "Function" -> Push(FnVal(bound.f))
      [] bound.tag = "Constant" -> Constant(bound.index)
      [] bound.tag = "Primitive" -> Push(FnVal(bound.f))
      [] OTHER -> Push(DefaultVal)

\* a resolution that tries the selector before the bindings
ident_selector_first(c, name, call) ==
    IF selector_from_str(name) # <<>> THEN selector(c, selector_from_str(name), call)
    ELSE IF contains_key(c.bindings, name)
    THEN push_call(push_instr(c, BoundInstr(get(c.bindings, name))), call)
    ELSE IF primitive_from_name(name) # "" THEN primitive(c, primitive_from_name(name), call)
    ELSE push_call(push_instr([c EXCEPT !.errors = Append(@, "UnknownBinding")],
                              BoundInstr(BoundError)), call)

ident(c, name, call) ==
    LET found == contains_key(c.bindings, name)
        prim == primitive_from_name(name)
        sel == selector_from_str(name)
        bound == IF found THEN get(c.bindings, name) ELSE BoundError
        c1 == IF found THEN c ELSE [c EXCEPT !.errors = Append(@, "UnknownBinding")]
    IN IF ~found /\ prim # "" THEN primitive(c, prim, call)
       ELSE IF ~found /\ sel # <<>> THEN selector(c, sel, call)
       ELSE push_call(push_instr(c1, BoundInstr(bound)), call)

\* TRUE of every record. An operand is evaluated where it is first read: the loops
\* below read the state they are handed before they take their next step, so that
\* the steps of a long input are evaluated one after the other
Known(c) == DOMAIN c = DOMAIN c

RECURSIVE words_from(_, _, _, _), word(_, _, _), func_outer(_, _, _), funcs_from(_, _, _)

words_forward(c, ws, call) ==
    words_from(c, [i \in 1..Len(ws) |-> ws[Len(ws) + 1 - i]], Len(ws), call)

\* Compiler::words: the words from last to first
words(c, ws, call) == words_from(c, ws, Len(ws), call)

words_from(c, ws, i, call) ==
    IF i = 0 \/ ~Known(c) THEN c ELSE words_from(word(c, ws[i], call), ws, i - 1, call)

\* Compiler::func
func(c, id, body) == func_outer(c, id, [kind |-> "words", body |-> body, prim |-> ""])

funcs_from(c, fs, i) ==
    IF i = 0 \/ ~Known(c) THEN c ELSE funcs_from(func(c, Anonymous(fs[i].span), fs[i].body), fs, i - 1)

modified(c, w, call) ==
    push_call(func_outer(c, Anonymous(w.span),
                         [kind |-> "modified", body |-> w.body, prim |-> w.prim]), call)

\* the end of Word::Array
end_array(c) == push_instr(push_call_span(c), EndArray(TRUE, c.assembly.spans))

word(c, w, call) ==
    CASE w.w = "Number" ->
           push_instr(IF w.ok THEN c ELSE [c EXCEPT !.errors = Append(@, "InvalidNumber")],
                      Push(NumVal(IF w.ok THEN w.num ELSE 0)))
      [] w.w = "Ident" -> ident(c, w.ident, call)
      [] w.w = "Array" ->
           end_array(words(push_instr(c, BeginArray), w.body, TRUE))
      [] w.w = "Strand" ->
           push_instr(words(push_instr(c, BeginArray), w.body, FALSE), EndArray(FALSE, 0))
      [] w.w = "Func" -> func(c, Anonymous(w.span), w.body)
      [] w.w = "FuncArray" ->
           push_instr(funcs_from(push_instr(c, BeginArray), w.body, Len(w.body)), EndArray(FALSE, 0))
      [] w.w = "Primitive" -> primitive(c, w.prim, call)
      [] OTHER -> modified(c, w, call)

\* a pattern that takes any pushed value for a function
is_wrapper_any_value(body) ==
    /\ Len(body) = 5
    /\ body[2].op = "Push"
    /\ body[3].op = "Call"

\* the [_, Push(val), Call(_), _, _] pattern of func_outer with val a function
is_wrapper(body) ==
    /\ Len(body) = 5
    /\ body[2].op = "Push"
    /\ body[3].op = "Call"
    /\ is_function(body[2].val)

\* func_outer from the end of the body on: c3 holds the compiled body
func_outer_close(c3, id) ==
    LET c4 == push_instr(push_instr(c3, Comment("CommentEnd")), Return)
        ipf == c4.in_progress_functions[Len(c4.in_progress_functions)]
        c5 == [c4 EXCEPT !.in_progress_functions = SubSeq(@, 1, Len(@) - 1)]
        short == is_wrapper(ipf)
        function == IF short THEN ipf[2].val.f ELSE Code(Len(c4.assembly.instrs))
        c6 == IF short THEN c5 ELSE [c5 EXCEPT !.assembly = add_function_instrs(@, ipf)]
        c7 == IF id.tag = "Named"
              THEN [c6 EXCEPT !.bindings = insert(@, id.name, BoundFunction(function))]
              ELSE c6
        c8 == [c7 EXCEPT !.assembly.function_ids = insert(@, function, id)]
    IN push_instr(c8, Push(FnVal(function)))

\* func_outer up to the end of inner(self): the body compiled into a fresh buffer
func_outer_inner(c, inner) ==
    LET c1 == [c EXCEPT !.in_progress_functions = Append(@, <<>>)]
        c2 == push_instr(c1, Comment("CommentFn"))
    IN IF inner.kind = "words"
       THEN words(c2, inner.body, TRUE)
       ELSE primitive(word(c2, inner.body[1], FALSE), inner.prim, TRUE)

func_outer(c, id, inner) == func_outer_close(func_outer_inner(c, inner), id)

global_count(bs) == Cardinality({p \in bs : p[2].tag = "Global"})

\* the end of binding: the next global index, the binding, BindGlobal
bind_global(c, name) ==
    LET index == global_count(c.bindings)
    IN push_instr([c EXCEPT !.bindings = insert(@, name, BoundGlobal(index))], BindGlobal(name))

binding(c, b) ==
    bind_global(IF is_capitalized(b.name)
                THEN func(c, Named(b.name), b.words)
                ELSE words(c, b.words, TRUE),
                b.name)

item(c, it) ==
    CASE it.item = "Words" -> words(c, it.words, TRUE)
      [] it.item = "Binding" -> binding(c, it)
      [] OTHER -> c

RECURSIVE items_from(_, _, _)
items_from(c, items, i) ==
    IF i > Len(items) \/ ~Known(c) THEN c ELSE items_from(item(c, items[i]), items, i + 1)

(***************************************************************************)
(* The compile-time Vm: run_assembly, restore_point, restore               *)
(***************************************************************************)
restore_point(m) == [globals |-> Len(m.globals), stack |-> Len(m.stack)]

\* the Vm cut back to the restore point, and the stack built since
restore(m, pt) ==
    [vm |-> [globals |-> SubSeq(m.globals, 1, IF pt.globals < Len(m.globals) THEN pt.globals ELSE Len(m.globals)),
             stack |-> SubSeq(m.stack, 1, IF pt.stack < Len(m.stack) THEN pt.stack ELSE Len(m.stack))],
     stack |-> SubSeq(m.stack, pt.stack + 1, Len(m.stack))]

Pop(st, n) == SubSeq(st, 1, Len(st) - n)
Top(st, i) == st[Len(st) + 1 - i]

\* the first digit in the place of the largest
selector_first_input(sel) == sel[1]
selector_min_inputs(sel) == CHOOSE d \in 0..5 : (\E i \in 1..5 : sel[i] = d) /\ \A i \in 1..5 : sel[i] <= d
RECURSIVE selector_outputs(_, _, _)
selector_outputs(st, sel, i) ==
    IF i > 5 \/ sel[i] = 0 THEN <<>>
    ELSE <<Top(st, sel[i])>> \o selector_outputs(st, sel, i + 1)

\* one built-in called on the stack: [ok, stack]
call_primitive(p, st) ==
    IF p = "Add"
    THEN IF Len(st) >= 2 /\ ~is_function(Top(st, 1)) /\ ~is_function(Top(st, 2))
         THEN [ok |-> TRUE, stack |-> Append(Pop(st, 2), NumVal(Top(st, 1).n + Top(st, 2).n))]
         ELSE [ok |-> FALSE, stack |-> st]
    ELSE IF Len(st) >= 1
         THEN [ok |-> TRUE, stack |-> Append(st, Top(st, 1))]
         ELSE [ok |-> FALSE, stack |-> st]

call_selector(sel, st) ==
    IF Len(st) >= selector_min_inputs(sel)
    THEN [ok |-> TRUE, stack |-> Pop(st, selector_min_inputs(sel)) \o selector_outputs(st, sel, 1)]
    ELSE [ok |-> FALSE, stack |-> st]

RECURSIVE exec(_, _, _, _, _, _)
\* the instruction at index pc (from 0) and on; frames are return addresses
exec(instrs, pc, m, frames, arrays, fuel) ==
    IF pc >= Len(instrs) \/ ~Known(m) THEN [ok |-> TRUE, vm |-> m]
    ELSE IF fuel = 0 THEN [ok |-> FALSE, vm |-> m]
    ELSE
    LET i == instrs[pc + 1]
        st == m.stack
        next(m2) == exec(instrs, pc + 1, m2, frames, arrays, fuel - 1)
        fail == [ok |-> FALSE, vm |-> m]
    IN CASE i.op = "Push" -> next([m EXCEPT !.stack = Append(@, i.val)])
         [] i.op = "Constant" -> next([m EXCEPT !.stack = Append(@, NumVal(3))])
         [] i.op = "CopyGlobal" ->
              IF i.idx < Len(m.globals)
              THEN next([m EXCEPT !.stack = Append(@, m.globals[i.idx + 1])])
              ELSE fail
         [] i.op = "BindGlobal" ->
              IF st = <<>> THEN fail
              ELSE next([globals |-> Append(m.globals, Top(st, 1)), stack |-> Pop(st, 1)])
         [] i.op = "BeginArray" ->
              exec(instrs, pc + 1, m, frames, Append(arrays, Len(st)), fuel - 1)
         [] i.op \in {"EndArray", "EndArrayCall"} ->
              IF arrays = <<>> \/ Top(arrays, 1) > Len(st) THEN fail
              ELSE exec(instrs, pc + 1,
                        [m EXCEPT !.stack = Append(SubSeq(st, 1, Top(arrays, 1)),
                                                   ArrVal(Len(st) - Top(arrays, 1)))],
                        frames, Pop(arrays, 1), fuel - 1)
         [] i.op = "Call" ->
              IF st = <<>> THEN fail
              ELSE LET v == Top(st, 1)
                       r == IF v.f.tag = "Primitive" THEN call_primitive(v.f.prim, Pop(st, 1))
                            ELSE call_selector(v.f.sel, Pop(st, 1))
                   IN IF ~is_function(v) THEN next(m)
                      ELSE IF v.f.tag = "Code"
                      THEN exec(instrs, v.f.k, [m EXCEPT !.stack = Pop(st, 1)],
                                Append(frames, pc + 1), arrays, fuel - 1)
                      ELSE IF r.ok THEN next([m EXCEPT !.stack = r.stack])
                      ELSE fail
         [] i.op = "Return" ->
              IF frames = <<>> THEN [ok |-> TRUE, vm |-> m]
              ELSE exec(instrs, Top(frames, 1), m, Pop(frames, 1), arrays, fuel - 1)
         [] OTHER -> next(m)

\* Vm::run_assembly: from assembly.start to the end of the instructions
run_assembly(asm, m) == exec(asm.instrs, asm.start, m, <<>>, <<>>, MaxSteps)

(***************************************************************************)
(* load, eval, finish                                                      *)
(***************************************************************************)
\* history: the Vm and the length of assembly.instrs when a call, or the eval_words
\* that ended it, began
At(m, function_start) == [vm |-> m, function_start |-> function_start]

\* the Err branch of load_impl
\* a rollback that cuts assembly.instrs alone
load_rollback_functions_only(c, function_start, global_start) ==
    [c EXCEPT !.assembly = truncate(@, function_start)]

load_rollback(c, function_start, global_start) ==
    [c EXCEPT !.assembly = truncate(@, function_start),
              !.global_instrs = SubSeq(@, 1, global_start)]

\* load_impl after the items were compiled into c1
load_end(c1, parse_errors, function_start, global_start) ==
    LET errs == parse_errors \o c1.errors
        c2 == [c1 EXCEPT !.errors = <<>>]
    IN IF errs = <<>>
       THEN [c |-> c2, ok |-> TRUE, rt |-> FALSE, stack |-> <<>>, at |-> At(c2.vm, function_start)]
       ELSE [c |-> load_rollback(c2, function_start, global_start), ok |-> FALSE,
             rt |-> FALSE, stack |-> <<>>, at |-> At(c2.vm, function_start)]

\* load_impl on the items and the errors of parse(input): [c, ok, rt, stack, at]
load_impl(c, items, parse_errors) ==
    load_end(items_from(c, items, 1), parse_errors, Len(c.assembly.instrs), Len(c.global_instrs))

\* a restore that cuts assembly.instrs and leaves the Vm as the run left it
eval_words_restore_instrs_only(c, ran, vm_state) ==
    [c EXCEPT !.vm = ran,
              !.assembly = truncate(@, c.assembly.start)]

\* the end of eval_words, after the run: restore the Vm, drop the global code
eval_words_restore(c, ran, vm_state) ==
    [c EXCEPT !.vm = restore(ran, vm_state).vm,
              !.assembly = truncate(@, c.assembly.start)]

\* eval_words after the run res of c3: [c, ok, rt, stack, at]; at is history, the
\* Vm as it was when the restore point was taken
eval_words_ran(c3, res, vm_state, function_start) ==
    [c |-> eval_words_restore(c3, res.vm, vm_state),
     ok |-> res.ok, rt |-> ~res.ok,
     stack |-> IF res.ok THEN restore(res.vm, vm_state).stack ELSE <<>>,
     at |-> At(c3.vm, function_start)]

\* eval_words after the words were compiled into c1
eval_words_compiled(c1, vm_state, function_start) ==
    LET taken == c1.global_instrs
        c2 == [c1 EXCEPT !.global_instrs = <<>>]
        c3 == [c2 EXCEPT !.assembly = add_non_function_instrs(@, taken)]
    IN IF c2.errors # <<>>
       THEN [c |-> [c2 EXCEPT !.vm = restore(c2.vm, vm_state).vm,
                              !.assembly = truncate(@, function_start),
                              !.errors = <<>>],
             ok |-> FALSE, rt |-> FALSE, stack |-> <<>>, at |-> At(c1.vm, function_start)]
       ELSE eval_words_ran(c3, run_assembly(c3.assembly, c3.vm), vm_state, function_start)

\* eval_words: [c, ok, rt, stack, at]; rt says that the run raised the error
eval_words(c, ws) ==
    eval_words_compiled(words(c, ws, TRUE), restore_point(c.vm), Len(c.assembly.instrs))

\* the lowercase binding of eval, once its words were evaluated to stack
eval_bind_global(c, name, stack) ==
    LET index == global_count(c.bindings)
    IN [c EXCEPT !.vm.globals = IF stack = <<>> THEN @ ELSE Append(@, Top(stack, 1)),
                 !.bindings = insert(@, name, BoundGlobal(index))]

RECURSIVE eval_items(_, _, _, _)
\* stack = self.eval_words(words)?
eval_item_words(r, items, i) ==
    IF r.ok THEN eval_items(r.c, items, i + 1, r.stack) ELSE r

\* let val = self.eval_words(binding.words)?.pop(); ...
eval_item_binding(r, name, items, i, stack) ==
    IF r.ok THEN eval_items(eval_bind_global(r.c, name, r.stack), items, i + 1, stack) ELSE r

\* the item loop of eval: [c, ok, rt, stack, at]
eval_items(c, items, i, stack) ==
    IF i > Len(items) \/ ~Known(c) THEN [c |-> c, ok |-> TRUE, rt |-> FALSE, stack |-> stack,
                            at |-> At(c.vm, Len(c.assembly.instrs))]
    ELSE LET it == items[i]
         IN CASE it.item = "Words" -> eval_item_words(eval_words(c, it.words), items, i)
              [] it.item = "Binding" /\ is_capitalized(it.name) ->
                   eval_items(func(c, Named(it.name), it.words), items, i + 1, stack)
              [] it.item = "Binding" ->
                   eval_item_binding(eval_words(c, it.words), it.name, items, i, stack)
              [] OTHER -> eval_items(c, items, i + 1, stack)

RECURSIVE reparse_word(_)
\* a word formatted and parsed again: a name of a primitive comes back as the
\* primitive, the words inside a word are formatted in their turn
reparse_word(w) ==
    IF w.w = "Ident" /\ primitive_from_name(w.ident) # ""
    THEN [WPrimitive(primitive_from_name(w.ident)) EXCEPT !.span = w.span]
    ELSE [w EXCEPT !.body = [i \in 1..Len(w.body) |-> reparse_word(w.body[i])]]

\* format_items_ignore_errors and the second parse
reparse(items) ==
    [i \in 1..Len(items) |->
        [items[i] EXCEPT !.words = [j \in 1..Len(items[i].words) |-> reparse_word(items[i].words[j])]]]

\* eval on the items and the errors of parse(input): [c, ok, rt, stack, at]
eval(c, items, parse_errors) ==
    IF parse_errors # <<>>
    THEN [c |-> c, ok |-> FALSE, rt |-> FALSE, stack |-> <<>>,
          at |-> At(c.vm, Len(c.assembly.instrs))]
    ELSE eval_items(c, reparse(items), 1, <<>>)

\* Compiler::finish: the Assembly handed out
finish(c) == add_non_function_instrs(c.assembly, c.global_instrs)

(***************************************************************************)
(* Inputs                                                                  *)
(***************************************************************************)
Ix == <<"x">>
Iy == <<"y">>
IF_ == <<"F">>
IG == <<"G">>
Iq == <<"q">>
Iab == <<"a", "b">>

Items == <<
    ItemBinding(Ix, <<WNumber(1)>>),
    ItemBinding(Iy, <<WNumber(2)>>),
    ItemBinding(IF_, <<WPrimitive("Add"), WNumber(1)>>),
    ItemBinding(IF_, <<WPrimitive("Add")>>),
    ItemBinding(IG, <<WIdent(IF_)>>),
    ItemWords(<<WIdent(Iq)>>),
    ItemWords(<<WIdent(IF_), WNumber(2)>>),
    ItemWords(<<WPrimitive("Add"), WNumber(1), WNumber(2)>>),
    ItemWords(<<WPrimitive("Add"), WFunc(7, <<WNumber(1), WNumber(2)>>)>>),
    ItemWords(<<WIdent(Ix)>>),
    ItemWords(<<WIdent(Iab), WNumber(1), WNumber(2)>>),
    ItemWords(<<WModified(9, "Dup", WPrimitive("Add")), WStrand(<<WNumber(1), WNumber(2)>>)>>),
    ItemWords(<<WArray(<<WBadNumber>>), WFuncArray(<<WFunc(8, <<WNumber(1)>>)>>)>>)
>>

RECURSIVE InputsOf(_)
\* the inputs of n items, as sequences of indices into Items
InputsOf(n) ==
    IF n = 0 THEN {<<>>}
    ELSE {Append(s, i) : s \in InputsOf(n - 1), i \in 1..Len(Items)}

Inputs(max) == UNION {InputsOf(n) : n \in 1..max}
ItemsOf(input) == [i \in 1..Len(input) |-> Items[input[i]]]
ParseErrors == {<<>>, <<"Parse">>}

(***************************************************************************)
(* The Compiler machine                                                    *)
(***************************************************************************)
Current ==
    [global_instrs |-> global_instrs, in_progress_functions |-> in_progress_functions,
     bindings |-> bindings, errors |-> errors, assembly |-> assembly, vm |-> vm]

Become(c) ==
    /\ global_instrs' = c.global_instrs
    /\ in_progress_functions' = c.in_progress_functions
    /\ bindings' = c.bindings
    /\ errors' = c.errors
    /\ assembly' = c.assembly
    /\ vm' = c.vm

\* Compiler::default
Default ==
    [global_instrs |-> <<Comment("CommentBegin")>>,
     in_progress_functions |-> <<>>,
     bindings |-> {<<ConstantNames[i], BoundConstant(i - 1)>> : i \in 1..Len(ConstantNames)}
                  \cup {<<PrimitiveIdent(p), BoundPrimitive(p)>> : p \in {q \in PrimitiveAll : PrimitiveIdent(q) # <<>>}},
     errors |-> <<>>,
     assembly |-> [instrs |-> <<>>, start |-> 0,
                   function_ids |-> {<<Primitive(p), PrimitiveId(p)>> : p \in PrimitiveAll},
                   spans |-> 1],
     vm |-> [globals |-> <<>>, stack |-> <<>>]]

LpIdle == [pc |-> "idle"]

Init ==
    /\ global_instrs = Default.global_instrs
    /\ in_progress_functions = Default.in_progress_functions
    /\ bindings = Default.bindings
    /\ errors = Default.errors
    /\ assembly = Default.assembly
    /\ vm = Default.vm
    /\ phase = "open"
    /\ budget = MaxItems
    /\ last = [op |-> "new", ok |-> TRUE, rt |-> FALSE, stack |-> <<>>, at |-> At(Default.vm, 0),
               pre |-> Default]
    /\ buffered = <<>>
    /\ lp = LpIdle

\* the call returned r
Returned(op, r, n) ==
    /\ Become(r.c)
    /\ budget' = budget - n
    /\ last' = [op |-> op, ok |-> r.ok, rt |-> r.rt, stack |-> r.stack, at |-> r.at,
                pre |-> Current]
    /\ buffered' = IF op = "load" /\ r.ok
                   THEN buffered \o SubSeq(r.c.global_instrs, Len(global_instrs) + 1,
                                           Len(r.c.global_instrs))
                   ELSE buffered

Load ==
    /\ phase = "open"
    /\ \E input \in Inputs(IF budget < MaxInput THEN budget ELSE MaxInput), pe \in ParseErrors :
         Returned("load", load_impl(Current, ItemsOf(input), pe), Len(input))
    /\ UNCHANGED <<phase, lp>>

Eval ==
    /\ phase = "open"
    /\ \E input \in Inputs(IF budget < MaxInput THEN budget ELSE MaxInput), pe \in ParseErrors :
         Returned("eval", eval(Current, ItemsOf(input), pe), Len(input))
    /\ UNCHANGED <<phase, lp>>

Finish ==
    /\ phase = "open"
    /\ phase' = "finished"
    /\ assembly' = finish(Current)
    /\ last' = [op |-> "finish", ok |-> TRUE, rt |-> FALSE, stack |-> <<>>, at |-> At(vm, Len(assembly.instrs)),
                pre |-> Current]
    /\ UNCHANGED <<global_instrs, in_progress_functions, bindings, errors, vm, budget, buffered, lp>>

Next == Load \/ Eval \/ Finish

Spec == Init /\ [][Next]_vars

(***************************************************************************)
(* Properties of the Compiler                                              *)
(***************************************************************************)
IsPrefix(a, b) == Len(a) <= Len(b) /\ SubSeq(b, 1, Len(a)) = a

RECURSIVE FunctionBodies(_, _)
\* instrs from index i (from 1) on is a run of whole function bodies, each from
\* its opening Comment to its Return
FunctionBodies(instrs, i) ==
    IF i > Len(instrs) THEN TRUE
    ELSE /\ instrs[i].op = "CommentFn"
         /\ \E j \in (i + 1)..Len(instrs) :
              /\ instrs[j].op = "Return"
              /\ \A h \in (i + 1)..(j - 1) : instrs[h].op \notin {"Return", "CommentFn", "BindGlobal"}
              /\ FunctionBodies(instrs, j + 1)

\* the Code handles an Assembly holds: keys of function_ids, values of Push
CodeHandles(asm) ==
    {f \in keys(asm.function_ids) : f.tag = "Code"}
    \cup {asm.instrs[i].val.f : i \in {j \in 1..Len(asm.instrs) :
              asm.instrs[j].op = "Push" /\ is_function(asm.instrs[j].val) /\ asm.instrs[j].val.f.tag = "Code"}}

\* Assembly::find_function: the handles the search can return for id
find_function(asm, id) == {p[1] : p \in {q \in asm.function_ids : q[2] = id}}
\* Assembly::function_id
function_id(asm, f) == get(asm.function_ids, f)

\* the positions of BindGlobal in instrs, and the slot the one at position j writes
\* when the instructions run in order on a fresh Vm
BindPositions(instrs) == {j \in 1..Len(instrs) : instrs[j].op = "BindGlobal"}
SlotOf(instrs, j) == Cardinality({h \in BindPositions(instrs) : h < j})

\* C1: after a failing load the lengths of global_instrs and assembly.instrs and
\* the bindings map are what they were before the call.
C1_FailedLoadRestoresState ==
    (last.op = "load" /\ ~last.ok) =>
        /\ Len(global_instrs) = Len(last.pre.global_instrs)
        /\ Len(assembly.instrs) = Len(last.pre.assembly.instrs)
        /\ bindings = last.pre.bindings

\* C2: a load that ends with errors leaves assembly.instrs and global_instrs as they
\* were before the call, with start at the length of assembly.instrs; a load that
\* ends without errors cuts neither buffer.
C2_LoadRollsBackBuffers ==
    last.op = "load" =>
        IF ~last.ok
        THEN /\ assembly.instrs = last.pre.assembly.instrs
             /\ assembly.start = Len(last.pre.assembly.instrs)
             /\ global_instrs = last.pre.global_instrs
        ELSE /\ IsPrefix(last.pre.assembly.instrs, assembly.instrs)
             /\ IsPrefix(last.pre.global_instrs, global_instrs)

\* C2 witness: a load failed after earlier loads had filled both buffers, and it had
\* compiled a function and a global binding of its own before it was rolled back.
C2_Witness ==
    /\ last.op = "load" /\ ~last.ok
    /\ Len(assembly.instrs) > 0
    /\ Len(global_instrs) > 1
    /\ \E f \in keys(assembly.function_ids) : f.tag = "Code" /\ f.k >= Len(assembly.instrs)
    /\ bindings # last.pre.bindings

\* C3: in the Assembly that finish returns every Code(k) handle has k < start and
\* points at a function body whose Return lies below start.
C3_CodeHandlesPointAtBodies ==
    phase = "finished" =>
        \A f \in CodeHandles(assembly) :
            /\ f.k < assembly.start
            /\ assembly.instrs[f.k + 1].op = "CommentFn"
            /\ \E j \in (f.k + 1)..assembly.start : assembly.instrs[j].op = "Return"

\* C4: a name bound to Global(i) has i equal to the slot its BindGlobal writes, and
\* two names never share a global index.
C4_GlobalIndexIsSlot ==
    /\ \A p \in bindings, q \in bindings :
           (p[2].tag = "Global" /\ q[2].tag = "Global" /\ p[1] # q[1]) => p[2].index # q[2].index
    /\ (last.op = "load" /\ last.ok) =>
           \A j \in BindPositions(global_instrs) :
               (/\ j > Len(last.pre.global_instrs)
                /\ \A h \in BindPositions(global_instrs) :
                       h > j => global_instrs[h].txt # global_instrs[j].txt)
               => get(bindings, global_instrs[j].txt) = BoundGlobal(SlotOf(global_instrs, j))

\* C5: function_ids is a bijection: no two handles carry one FunctionId, the
\* primitives keep their own ids, and find_function(function_id(f)) is f.
C5_FunctionIdsBijection ==
    /\ \A p \in assembly.function_ids, q \in assembly.function_ids : p[2] = q[2] => p[1] = q[1]
    /\ \A p \in PrimitiveAll : function_id(assembly, Primitive(p)) = PrimitiveId(p)
    /\ \A f \in keys(assembly.function_ids) :
           find_function(assembly, function_id(assembly, f)) = {f}

\* instrs without the BEGIN comment of Compiler::default
NotBegin(instr) == instr.op # "CommentBegin"

\* C6: finish returns function bodies below start and, from start on, the global
\* instructions of the successful loads in load order (the BEGIN comment of
\* Compiler::default aside), whatever evals came between.
C6_FinishAppendsLoadedGlobals ==
    phase = "finished" =>
        /\ FunctionBodies(SubSeq(assembly.instrs, 1, assembly.start), 1)
        /\ SelectSeq(SubSeq(assembly.instrs, assembly.start + 1, Len(assembly.instrs)), NotBegin)
               = buffered

\* C7 as claimed: after a runtime error in eval the Vm is back at the restore point,
\* assembly.instrs ends at start, and nothing compiled for the failed words is left
\* in assembly.instrs.
C7_EvalErrorLeavesNoInstr ==
    (last.op = "eval" /\ last.rt) =>
        /\ vm = last.at.vm
        /\ Len(assembly.instrs) = assembly.start
        /\ Len(assembly.instrs) = last.at.function_start

\* C7 amended: after a runtime error in eval the Vm is back at the restore point and
\* assembly.instrs ends at start; what the failed words added to assembly.instrs is
\* only whole bodies of the functions they define, all below start.
C7_EvalErrorRestores ==
    (last.op = "eval" /\ last.rt) =>
        /\ vm = last.at.vm
        /\ Len(assembly.instrs) = assembly.start
        /\ last.at.function_start <= Len(assembly.instrs)
        /\ FunctionBodies(assembly.instrs, last.at.function_start + 1)

\* C7 witness: the run of an eval failed and a function body of the failed words is
\* left below start.
C7_Witness ==
    /\ last.op = "eval" /\ last.rt
    /\ Len(assembly.instrs) > last.at.function_start

(***************************************************************************)
(* Arrays: a shape and a row-major buffer                                  *)
(***************************************************************************)
\* rows of the arrays partitioned and grouped
MaxRows == 3
\* isize::MAX, the first last_marker of partition_groups (of a 32-bit target)
ISizeMax == 2147483647

Arr(shape, data) == [shape |-> shape, data |-> data]
List(xs) == Arr(<<Len(xs)>>, xs)

RECURSIVE Product(_)
Product(dims) == IF dims = <<>> THEN 1 ELSE dims[1] * Product(Tail(dims))

RECURSIVE Flatten(_)
Flatten(seqs) == IF seqs = <<>> THEN <<>> ELSE seqs[1] \o Flatten(Tail(seqs))

row_count(v) == IF v.shape = <<>> THEN 1 ELSE v.shape[1]
row_len(v) == IF v.shape = <<>> THEN 1 ELSE Product(Tail(v.shape))
\* row i, from 0
row(v, i) ==
    IF v.shape = <<>> THEN v
    ELSE Arr(Tail(v.shape), SubSeq(v.data, i * row_len(v) + 1, (i + 1) * row_len(v)))
into_rows(v) == [i \in 1..row_count(v) |-> row(v, i - 1)]

\* Array::from_row_arrays_infallible, on rows of one array
from_row_arrays_infallible(rs) ==
    IF rs = <<>> THEN Arr(<<0>>, <<>>)
    ELSE Arr(<<Len(rs)>> \o rs[1].shape, Flatten([i \in 1..Len(rs) |-> rs[i].data]))

\* Value::from_row_values: rows of one shape make an array, others are an error
from_row_values(rs) ==
    IF \A i \in 1..Len(rs) : rs[i].shape = rs[1].shape
    THEN [ok |-> TRUE, value |-> from_row_arrays_infallible(rs)]
    ELSE [ok |-> FALSE, value |-> Arr(<<0>>, <<>>)]

\* Value::as_ints: a list of integers
as_ints(v) == [ok |-> Len(v.shape) = 1, ints |-> v.data]

(***************************************************************************)
(* partition_groups, group_groups                                          *)
(***************************************************************************)
PushLast(groups, r) == [groups EXCEPT ![Len(groups)] = Append(@, r)]

\* the body of the loop of partition_groups for one row and its marker
partition_row(acc, r, marker) ==
    LET groups == IF marker > 0 /\ marker # acc.last_marker
                  THEN Append(acc.groups, <<>>) ELSE acc.groups
    IN IF acc.status # "ok" THEN acc
       ELSE IF marker > 0 /\ groups = <<>>
       THEN [acc EXCEPT !.status = "panic"]
       ELSE [status |-> "ok",
             groups |-> IF marker > 0 THEN PushLast(groups, r) ELSE groups,
             last_marker |-> marker]

RECURSIVE partition_rows(_, _, _, _)
partition_rows(acc, rs, markers, i) ==
    IF i > Len(rs) \/ i > Len(markers) THEN acc
    ELSE partition_rows(partition_row(acc, rs[i], markers[i]), rs, markers, i + 1)

Collected(acc) ==
    [status |-> acc.status,
     groups |-> [g \in 1..Len(acc.groups) |-> from_row_arrays_infallible(acc.groups[g])]]

\* Array::partition_groups: [status, groups]
partition_groups(v, markers) ==
    IF Len(markers) # row_count(v)
    THEN [status |-> "error", groups |-> <<>>]
    ELSE Collected(partition_rows([status |-> "ok", groups |-> <<>>, last_marker |-> ISizeMax],
                                  into_rows(v), markers, 1))

RECURSIVE SeqMax(_)
SeqMax(xs) ==
    IF Len(xs) = 1 THEN xs[1]
    ELSE IF xs[1] > SeqMax(Tail(xs)) THEN xs[1] ELSE SeqMax(Tail(xs))

\* a loop body that puts the row before the rows its bucket holds
group_row_prepend(acc, v, r, g) ==
    IF g >= 0 /\ r < row_count(v)
    THEN [acc EXCEPT !.groups[g + 1] = <<row(v, r)>> \o @]
    ELSE acc

\* the body of the loop of group_groups for row r (from 0) with index g
group_row(acc, v, r, g) ==
    IF g >= 0 /\ r < row_count(v)
    THEN [acc EXCEPT !.groups[g + 1] = Append(@, row(v, r))]
    ELSE acc

RECURSIVE group_rows(_, _, _, _)
group_rows(acc, v, indices, i) ==
    IF i > Len(indices) THEN acc
    ELSE group_rows(group_row(acc, v, i - 1, indices[i]), v, indices, i + 1)

\* Array::group_groups: [status, groups]
group_groups(v, indices) ==
    IF Len(indices) # row_count(v) THEN [status |-> "error", groups |-> <<>>]
    ELSE IF indices = <<>> THEN [status |-> "ok", groups |-> <<>>]
    ELSE Collected(group_rows(
             [status |-> "ok",
              groups |-> [g \in 1..((IF SeqMax(indices) > 0 THEN SeqMax(indices) ELSE 0) + 1) |-> <<>>]],
             v, indices, 1))

(***************************************************************************)
(* The functions handed to the modifiers, and the runtime's two stacks     *)
(***************************************************************************)
Fn(name, args, outputs) == [name |-> name, args |-> args, outputs |-> outputs]
\* the identity, of signature (1, 1)
FnId == Fn("id", 1, 1)
\* a reducing function of signature (2, 1): ten times the accumulator on top of
\* the stack plus the row count of the value under it
FnFold == Fn("fold", 2, 1)
\* a function of signature (3, 1)
FnTri == Fn("tri", 3, 1)
\* a function known by its signature alone: it takes its arguments and leaves
\* as many values as it has outputs
FnSig(args, outputs) == Fn("sig", args, outputs)
\* the successor and the predecessor of a number, each the inverse of the other
FnInc == Fn("inc", 1, 1)
FnDec == Fn("dec", 1, 1)
\* a function that drops a value, and has no inverse
FnPop == Fn("pop", 1, 0)
\* the count of the rows of a value, of signature (1, 1)
FnLen == Fn("len", 1, 1)

Scalar(n) == Arr(<<>>, <<n>>)

\* env.call(f) on the stack: [ok, stack]
call(f, st) ==
    IF Len(st) < f.args THEN [ok |-> FALSE, stack |-> st]
    ELSE IF f.name = "id" THEN [ok |-> TRUE, stack |-> st]
    ELSE IF f.name = "fold"
    THEN [ok |-> TRUE,
          stack |-> Append(Pop(st, 2), Scalar(Top(st, 1).data[1] * 10 + row_count(Top(st, 2))))]
    ELSE IF f.name = "sig"
    THEN [ok |-> TRUE, stack |-> Pop(st, f.args) \o [i \in 1..f.outputs |-> 7]]
    ELSE IF f.name = "inc" THEN [ok |-> TRUE, stack |-> Append(Pop(st, 1), Top(st, 1) + 1)]
    ELSE IF f.name = "dec" THEN [ok |-> TRUE, stack |-> Append(Pop(st, 1), Top(st, 1) - 1)]
    ELSE IF f.name = "pop" THEN [ok |-> TRUE, stack |-> Pop(st, 1)]
    ELSE IF f.name = "len"
    THEN [ok |-> TRUE, stack |-> Append(Pop(st, 1), Scalar(row_count(Top(st, 1))))]
    ELSE [ok |-> TRUE, stack |-> Append(Pop(st, 3), Top(st, 1))]

\* env.push(v); env.call(f); env.pop(): the value f leaves for v alone on the stack
applied(f, v) == Top(call(f, <<v>>).stack, 1)

\* the result of a modifier: the runtime's stack and under-stack and how it ended
Ended(st, under, status, err) == [stack |-> st, under |-> under, status |-> status, err |-> err]

(***************************************************************************)
(* collapse_groups (partition, group)                                      *)
(***************************************************************************)
\* the 0 | 1 branch once the groups are there
collapse_map(f, groups, st, under) ==
    LET rs == from_row_values([g \in 1..Len(groups.groups) |-> applied(f, groups.groups[g])])
    IN IF groups.status # "ok" THEN Ended(st, under, groups.status, "groups")
       ELSE IF ~rs.ok THEN Ended(st, under, "error", "rows")
       ELSE Ended(Append(st, rs.value), under, "ok", "")

RECURSIVE collapse_fold_from(_, _, _, _)
\* the loop of the 2 branch: the accumulator after the groups from g on
collapse_fold_from(f, groups, g, acc) ==
    IF g > Len(groups) THEN acc
    ELSE collapse_fold_from(f, groups, g + 1, Top(call(f, <<groups[g], acc>>).stack, 1))

collapse_fold(f, groups, acc, st, under) ==
    IF groups.status # "ok" THEN Ended(st, under, groups.status, "groups")
    ELSE Ended(Append(st, collapse_fold_from(f, groups.groups, 1, acc)), under, "ok", "")

get_groups(name, v, ints) ==
    IF name = "partition" THEN partition_groups(v, ints) ELSE group_groups(v, ints)

\* collapse_groups after f was popped
collapse_groups(name, f, st, under) ==
    CASE f.args \in {0, 1} ->
           IF Len(st) < 2 THEN Ended(<<>>, under, "error", "pop")
           ELSE IF ~as_ints(Top(st, 1)).ok THEN Ended(Pop(st, 1), under, "error", "ints")
           ELSE collapse_map(f, get_groups(name, Top(st, 2), as_ints(Top(st, 1)).ints),
                             Pop(st, 2), under)
      [] f.args = 2 ->
           IF Len(st) < 3 THEN Ended(<<>>, under, "error", "pop")
           ELSE IF ~as_ints(Top(st, 2)).ok THEN Ended(Pop(st, 2), under, "error", "ints")
           ELSE collapse_fold(f, get_groups(name, Top(st, 3), as_ints(Top(st, 2)).ints),
                              Top(st, 1), Pop(st, 3), under)
      [] OTHER -> Ended(st, under, "error", "args")

(***************************************************************************)
(* unpartition                                                             *)
(***************************************************************************)
RECURSIVE marker_runs(_, _, _, _)
\* the loop that counts the partition markers: runs of <<marker, length>>
marker_runs(runs, markers, i, prev) ==
    IF i > Len(markers) THEN runs
    ELSE marker_runs(IF markers[i] = prev
                     THEN [runs EXCEPT ![Len(runs)][2] = @ + 1]
                     ELSE Append(runs, <<markers[i], 1>>),
                     markers, i + 1, markers[i])

marker_partitions(markers) ==
    IF markers = <<>> THEN <<>>
    ELSE marker_runs(<< <<markers[1], 1>> >>, markers, 2, markers[1])

\* a count that takes the runs of marker 0 for partitions
positive_partitions_with_zero(runs) == Cardinality({i \in 1..Len(runs) : runs[i][1] >= 0})

positive_partitions(runs) == Cardinality({i \in 1..Len(runs) : runs[i][1] > 0})

RECURSIVE unpartition_rows(_, _, _, _, _, _)
\* the rows put back for the runs from p on; t counts the transformed rows taken
unpartition_rows(runs, p, untransformed, t, original, original_offset) ==
    IF p > Len(runs) THEN <<>>
    ELSE IF runs[p][1] > 0
    THEN into_rows(untransformed[t + 1])
         \o unpartition_rows(runs, p + 1, untransformed, t + 1, original, original_offset + runs[p][2])
    ELSE [i \in 1..runs[p][2] |-> row(original, original_offset + i - 1)]
         \o unpartition_rows(runs, p + 1, untransformed, t, original, original_offset + runs[p][2])

\* unpartition from the count of the markers on
unpartition_check(runs, untransformed, original, st, under) ==
    LET rs == from_row_values(unpartition_rows(runs, 1, untransformed, 0, original, 0))
    IN IF positive_partitions(runs) # Len(untransformed)
       THEN Ended(st, under, "error", "count")
       ELSE IF ~rs.ok THEN Ended(st, under, "error", "rows")
       ELSE Ended(Append(st, rs.value), under, "ok", "")

\* unpartition after f was popped
unpartition(f, st, under) ==
    IF <<f.args, f.outputs>> # <<1, 1>> THEN Ended(st, under, "error", "signature")
    ELSE IF st = <<>> THEN Ended(st, under, "error", "pop")
    ELSE IF Len(under) < 2 THEN Ended(Pop(st, 1), <<>>, "error", "pop")
    ELSE IF ~as_ints(Top(under, 2)).ok THEN Ended(Pop(st, 1), Pop(under, 2), "error", "ints")
    ELSE unpartition_check(marker_partitions(as_ints(Top(under, 2)).ints),
                           [i \in 1..row_count(Top(st, 1)) |-> applied(f, row(Top(st, 1), i - 1))],
                           Top(under, 1), Pop(st, 1), Pop(under, 2))

(***************************************************************************)
(* ungroup                                                                 *)
(***************************************************************************)
Reverse(xs) == [i \in 1..Len(xs) |-> xs[Len(xs) + 1 - i]]

\* the rows of f on each row of grouped, left in the order they were taken
ungrouped_rows_unreversed(f, grouped) ==
    [i \in 1..row_count(grouped) |->
        into_rows(applied(f, row(grouped, row_count(grouped) - i)))]

\* the rows of f on each row of grouped, taken from the last row to the first and
\* then put back in order
ungrouped_rows(f, grouped) ==
    Reverse([i \in 1..row_count(grouped) |->
                into_rows(applied(f, row(grouped, row_count(grouped) - i)))])

RECURSIVE ungroup_rows(_, _, _, _, _)
\* the loop over the indices from i (from 1) on: [status, err, rows]
ungroup_rows(indices, i, buckets, original, out) ==
    IF i > Len(indices) THEN [status |-> "ok", err |-> "", rows |-> out]
    ELSE IF indices[i] < 0
    THEN ungroup_rows(indices, i + 1, buckets, original, Append(out, row(original, i - 1)))
    ELSE IF indices[i] >= Len(buckets) THEN [status |-> "panic", err |-> "index", rows |-> out]
    ELSE IF buckets[indices[i] + 1] = <<>> THEN [status |-> "error", err |-> "length", rows |-> out]
    ELSE ungroup_rows(indices, i + 1, [buckets EXCEPT ![indices[i] + 1] = Tail(@)], original,
                      Append(out, Head(buckets[indices[i] + 1])))

\* ungroup from the end of its loop on
ungroup_check(res, st, under) ==
    LET rs == from_row_values(res.rows)
    IN IF res.status # "ok" THEN Ended(st, under, res.status, res.err)
       ELSE IF ~rs.ok THEN Ended(st, under, "error", "rows")
       ELSE Ended(Append(st, rs.value), under, "ok", "")

\* ungroup after f was popped
ungroup(f, st, under) ==
    IF <<f.args, f.outputs>> # <<1, 1>> THEN Ended(st, under, "error", "signature")
    ELSE IF st = <<>> THEN Ended(st, under, "error", "pop")
    ELSE IF Len(under) < 2 THEN Ended(Pop(st, 1), <<>>, "error", "pop")
    ELSE IF ~as_ints(Top(under, 2)).ok THEN Ended(Pop(st, 1), Pop(under, 2), "error", "ints")
    ELSE ungroup_check(ungroup_rows(as_ints(Top(under, 2)).ints, 1, ungrouped_rows(f, Top(st, 1)),
                                    Top(under, 1), <<>>),
                       Pop(st, 1), Pop(under, 2))

(***************************************************************************)
(* The modifiers under `under`: partition or group, a change to the         *)
(* collapsed value, then unpartition or ungroup                            *)
(***************************************************************************)
\* the arrays of n rows: a list and a table of rows of two
Counting(n) == [i \in 1..n |-> i]
Arrays(n) ==
    {List(Counting(n))} \cup (IF n \in 1..2 THEN {Arr(<<n, 2>>, Counting(2 * n))} ELSE {})
LoopArrays == UNION {Arrays(n) : n \in 0..MaxRows}

SeqsOver(S, max) == UNION {[1..n -> S] : n \in 0..max}
PartitionMarkers == SeqsOver({0, 1, 2, ISizeMax}, MaxRows)
GroupIndices == SeqsOver({-1, 0, 1}, MaxRows)
LoopFns == {FnId, FnFold, FnTri}
UndoFns == {FnId, FnFold}

\* what the collapsed value is replaced with before it is undone
Transformed ==
    {List(<<>>), List(<<7>>), List(<<7, 8>>), Arr(<<1, 1>>, <<7>>), Arr(<<1, 2>>, <<7, 8>>),
     Arr(<<2, 1>>, <<7, 8>>), Arr(<<2, 2>>, <<7, 8, 9, 10>>), Arr(<<1, 1, 2>>, <<7, 8>>),
     Arr(<<2, 1, 2>>, <<7, 8, 9, 10>>)}

\* the stack with the array, the markers or indices, and the accumulator of a fold
Given(kind, A, M, f) ==
    [pc |-> "input", kind |-> kind, A |-> A, M |-> M, f |-> f, g |-> FnId,
     stack |-> IF f.args = 2 THEN <<A, List(M), Scalar(0)>> ELSE <<A, List(M)>>,
     under |-> <<>>, given |-> <<>>, status |-> "ok", err |-> "", touched |-> FALSE]

InitLoops ==
    /\ global_instrs = Default.global_instrs
    /\ in_progress_functions = Default.in_progress_functions
    /\ bindings = Default.bindings
    /\ errors = Default.errors
    /\ assembly = Default.assembly
    /\ vm = Default.vm
    /\ phase = "loops"
    /\ budget = 0
    /\ last = [op |-> "new", ok |-> TRUE, rt |-> FALSE, stack |-> <<>>, at |-> At(Default.vm, 0),
               pre |-> Default]
    /\ buffered = <<>>
    /\ lp \in {Given("partition", A, M, f) : A \in LoopArrays, M \in PartitionMarkers, f \in LoopFns}
              \cup {Given("group", A, M, f) : A \in LoopArrays, M \in GroupIndices, f \in LoopFns}

\* the modifier ended with r
Collapsed(r) ==
    lp' = [lp EXCEPT !.pc = IF r.status = "ok" THEN "collapsed" ELSE "failed",
                     !.stack = r.stack, !.under = r.under, !.status = r.status, !.err = r.err]

Undone(g, r) ==
    lp' = [lp EXCEPT !.pc = "undone", !.g = g, !.given = lp.stack,
                     !.stack = r.stack, !.under = r.under, !.status = r.status, !.err = r.err]

\* partition under `under`: the markers and the array are kept on the under-stack
Partition ==
    /\ lp.pc = "input" /\ lp.kind = "partition"
    /\ Collapsed(collapse_groups("partition", lp.f, lp.stack, <<List(lp.M), lp.A>>))
    /\ UNCHANGED compilerVars
    /\ UNCHANGED <<phase, budget, last, buffered>>

Group ==
    /\ lp.pc = "input" /\ lp.kind = "group"
    /\ Collapsed(collapse_groups("group", lp.f, lp.stack, <<List(lp.M), lp.A>>))
    /\ UNCHANGED compilerVars
    /\ UNCHANGED <<phase, budget, last, buffered>>

\* the function under which the value was collapsed leaves another value
Transform ==
    /\ lp.pc = "collapsed" /\ ~lp.touched
    /\ \E T \in Transformed : lp' = [lp EXCEPT !.stack = Append(Pop(@, 1), T), !.touched = TRUE]
    /\ UNCHANGED compilerVars
    /\ UNCHANGED <<phase, budget, last, buffered>>

Unpartition ==
    /\ lp.pc = "collapsed" /\ lp.kind = "partition"
    /\ \E g \in UndoFns : Undone(g, unpartition(g, lp.stack, lp.under))
    /\ UNCHANGED compilerVars
    /\ UNCHANGED <<phase, budget, last, buffered>>

Ungroup ==
    /\ lp.pc = "collapsed" /\ lp.kind = "group"
    /\ \E g \in UndoFns : Undone(g, ungroup(g, lp.stack, lp.under))
    /\ UNCHANGED compilerVars
    /\ UNCHANGED <<phase, budget, last, buffered>>

NextLoops == Partition \/ Group \/ Transform \/ Unpartition \/ Ungroup

SpecLoops == InitLoops /\ [][NextLoops]_vars

(***************************************************************************)
(* Properties of partition, group and their inverses                       *)
(***************************************************************************)
\* the runs of one positive marker in m, counted from the markers themselves
PositiveRuns(m) ==
    Cardinality({i \in 1..Len(m) : m[i] > 0 /\ (i = 1 \/ m[i - 1] # m[i])})

\* the collapsed value was handed to the inverse as the modifier left it
RoundTrip(kind) ==
    /\ lp.pc # "idle"
    /\ lp.kind = kind
    /\ lp.f = FnId
    /\ Len(lp.M) = row_count(lp.A)
    /\ ~lp.touched

\* C8: for every array A and markers M with |M| = rows(A), partition with the
\* identity returns, and unpartition with the identity then leaves an array with
\* the elements of A
C8_PartitionRoundTrip ==
    RoundTrip("partition") =>
        /\ lp.pc # "failed"
        /\ lp.pc = "undone" /\ lp.g = FnId =>
               lp.status = "ok" /\ Top(lp.stack, 1).data = lp.A.data

Unpartitioned == lp.pc = "undone" /\ lp.kind = "partition"

\* C10 as stated: unpartition succeeds if and only if the positive runs of M are
\* as many as the rows of the transformed input, and when they are not it
\* returns an error and pushes nothing
C10_UnpartitionIffCounts ==
    Unpartitioned =>
        /\ lp.status = "ok" <=> PositiveRuns(lp.M) = row_count(Top(lp.given, 1))
        /\ PositiveRuns(lp.M) # row_count(Top(lp.given, 1)) =>
               lp.status = "error" /\ lp.stack = Pop(lp.given, 1)

\* C10: with a function of signature (1, 1), unpartition returns the row count
\* error and pushes nothing when the positive runs of M are not as many as the
\* rows of the transformed input; when they are as many it pushes one array, or
\* fails only because the rows put back do not make an array
C10_UnpartitionCounts ==
    Unpartitioned /\ <<lp.g.args, lp.g.outputs>> = <<1, 1>> =>
        IF PositiveRuns(lp.M) # row_count(Top(lp.given, 1))
        THEN lp.status = "error" /\ lp.err = "count" /\ lp.stack = Pop(lp.given, 1)
        ELSE \/ lp.status = "ok" /\ Len(lp.stack) = Len(lp.given)
             \/ lp.status = "error" /\ lp.err = "rows" /\ lp.stack = Pop(lp.given, 1)

\* C10 witness: M has two positive runs, the transformed input has one row, and
\* unpartition with the identity returned an error
C10_Witness ==
    /\ Unpartitioned /\ lp.g = FnId /\ lp.touched
    /\ PositiveRuns(lp.M) = 2
    /\ row_count(Top(lp.given, 1)) = 1
    /\ lp.status = "error"

(***************************************************************************)
(* do                                                                      *)
(***************************************************************************)
\* largest count of arguments and of outputs of a function handed to do
MaxSig == 2
\* times the condition of one do answers true before it answers false
MaxTurns == 2

Signature(args, outputs) == [args |-> args, outputs |-> outputs]
signature(f) == Signature(f.args, f.outputs)

\* usize::saturating_sub
saturating_sub(a, b) == IF a > b THEN a - b ELSE 0

\* Signature::compose: the signature of s1 followed by s2
compose(s1, s2) ==
    Signature(s1.args + saturating_sub(s2.args, s1.outputs),
              s2.outputs + saturating_sub(s1.outputs, s2.args))

\* a count of copies that does not look at the outputs of the condition
copy_count_args(g_sig) == g_sig.args

copy_count(g_sig) == saturating_sub(g_sig.args, g_sig.outputs - 1)

g_sub_sig(g_sig) == Signature(g_sig.args, g_sig.outputs + copy_count(g_sig) - 1)

comp_sig(f_sig, g_sig) == compose(f_sig, g_sub_sig(g_sig))

\* the two checks made before the loop: "" when both pass
do_check(f, g) ==
    IF signature(g).outputs < 1 THEN "condition"
    ELSE IF comp_sig(signature(f), signature(g)).args # comp_sig(signature(f), signature(g)).outputs
    THEN "net"
    ELSE ""

\* Uiua::clone_stack_top: the top n values, bottom first
clone_stack_top(st, n) == SubSeq(st, Len(st) - (IF n < Len(st) THEN n ELSE Len(st)) + 1, Len(st))

\* Value::as_bool: 0 and 1 are the booleans
as_bool(v) == [ok |-> v \in {0, 1}, b |-> v = 1]

\* env.call(g) for a condition whose top output is the value c
call_leaving(g, st, c) ==
    IF call(g, st).ok THEN [ok |-> TRUE, stack |-> Append(Pop(call(g, st).stack, 1), c)]
    ELSE call(g, st)

\* what is left of the called condition: the popped value read as a boolean
do_cond_popped(called) ==
    IF ~called.ok THEN [status |-> "error", err |-> "call", stack |-> called.stack, cond |-> FALSE]
    ELSE IF ~as_bool(Top(called.stack, 1)).ok
    THEN [status |-> "error", err |-> "bool", stack |-> Pop(called.stack, 1), cond |-> FALSE]
    ELSE [status |-> "ok", err |-> "", stack |-> Pop(called.stack, 1),
          cond |-> as_bool(Top(called.stack, 1)).b]

\* a turn that calls the condition on the stack as it is, without the copies
do_cond_uncloned(g, st, c) == do_cond_popped(call_leaving(g, st, c))

\* the first half of one turn of the loop: copy, call g, pop the condition
do_cond(g, st, c) ==
    do_cond_popped(call_leaving(g, st \o clone_stack_top(st, copy_count(signature(g))), c))

(***************************************************************************)
(* do as a machine: the checks, then condition and body in turn            *)
(***************************************************************************)
\* the Compiler plays no part in the runtime's modifiers: it rests as constructed
Aside(ph) ==
    /\ global_instrs = Default.global_instrs
    /\ in_progress_functions = Default.in_progress_functions
    /\ bindings = Default.bindings
    /\ errors = Default.errors
    /\ assembly = Default.assembly
    /\ vm = Default.vm
    /\ phase = ph
    /\ budget = 0
    /\ last = [op |-> "new", ok |-> TRUE, rt |-> FALSE, stack |-> <<>>, at |-> At(Default.vm, 0),
               pre |-> Default]
    /\ buffered = <<>>

DoFns == {FnSig(a, o) : a \in 0..MaxSig, o \in 0..MaxSig}
DoStacks == {Counting(n) : n \in 0..MaxSig + 1}
\* what a condition may leave on top: false, true, and a value that is no boolean
CondValues == {0, 1, 2}

\* history: no value was popped as the condition
NoCond == -1

\* do after f and g were popped, the stack under them being st; popped is
\* history, the value the last call of the condition left to be popped
DoGiven(f, g, st) ==
    [pc |-> "entry", kind |-> "do", f |-> f, g |-> g, stack |-> st, entry |-> st,
     calls_f |-> 0, calls_g |-> 0, turns |-> MaxTurns, popped |-> NoCond,
     status |-> "ok", err |-> ""]

InitDo ==
    /\ Aside("do")
    /\ lp \in {DoGiven(f, g, st) : f \in DoFns, g \in DoFns, st \in DoStacks}

DoChecked(err) ==
    lp' = [lp EXCEPT !.pc = IF err = "" THEN "cond" ELSE "failed",
                     !.status = IF err = "" THEN "ok" ELSE "error", !.err = err]

\* the checks of the two signatures
DoCheck ==
    /\ lp.pc = "entry"
    /\ DoChecked(do_check(lp.f, lp.g))
    /\ UNCHANGED compilerVars

DoCondEnded(r, c) ==
    lp' = [lp EXCEPT !.pc = IF r.status # "ok" THEN "failed" ELSE IF r.cond THEN "body" ELSE "done",
                     !.stack = r.stack, !.status = r.status, !.err = r.err,
                     !.calls_g = @ + 1, !.turns = IF c = 1 THEN @ - 1 ELSE @,
                     !.popped = IF r.err = "call" THEN NoCond ELSE c]

\* the condition is called; it answers true MaxTurns times at most
DoCond ==
    /\ lp.pc = "cond"
    /\ \E c \in (IF lp.turns > 0 THEN CondValues ELSE CondValues \ {1}) :
         DoCondEnded(do_cond(lp.g, lp.stack, c), c)
    /\ UNCHANGED compilerVars

DoBodyEnded(r) ==
    lp' = [lp EXCEPT !.pc = IF r.ok THEN "cond" ELSE "failed", !.stack = r.stack,
                     !.status = IF r.ok THEN "ok" ELSE "error",
                     !.err = IF r.ok THEN "" ELSE "call", !.calls_f = @ + 1]

\* the body is called
DoBody ==
    /\ lp.pc = "body"
    /\ DoBodyEnded(call(lp.f, lp.stack))
    /\ UNCHANGED compilerVars

NextDo == DoCheck \/ DoCond \/ DoBody

SpecDo == InitDo /\ [][NextDo]_vars

\* the loop is one synchronous call: once entered it keeps taking its next step
FairSpecDo == SpecDo /\ WF_vars(NextDo)

(***************************************************************************)
(* Properties of do                                                        *)
(***************************************************************************)
\* the stack at entry holds the values any function of the loop may take
DoFed == Len(lp.entry) >= MaxSig

\* C11: a do whose condition comes to answer false terminates, and when it has
\* returned the stack is as deep as it was at entry, for every f and g that pass
\* the checks
C11_DoTerminatesNetZero ==
    /\ [](lp.pc = "done" /\ DoFed => Len(lp.stack) = Len(lp.entry))
    /\ <>(lp.pc \in {"done", "failed"})

\* the loop comes to an end (the half of C11 the code keeps)
DoTerminates == <>(lp.pc \in {"done", "failed"})

\* the depth a finished do leaves: the final call of the condition leaves the
\* outputs it has beyond its arguments and its boolean
DoLeaves ==
    lp.pc = "done" /\ DoFed =>
        Len(lp.stack) = Len(lp.entry) + saturating_sub(lp.g.outputs - 1, lp.g.args)

\* the signatures are rejected: as C12 words it, with max in the place of the
\* saturating subtraction
DoRejected(f_sig, g_sig, cc) ==
    \/ g_sig.outputs < 1
    \/ compose(f_sig, Signature(g_sig.args, g_sig.outputs + cc - 1)).args
         # compose(f_sig, Signature(g_sig.args, g_sig.outputs + cc - 1)).outputs

Max(a, b) == IF a >= b THEN a ELSE b

\* C12: when the condition has no output, or f composed with g_sub has args
\* different from outputs, do returns an error and has called neither f nor g;
\* otherwise it returns neither of the two errors
C12_DoRejectsWithoutCalling ==
    lp.pc # "entry" =>
        IF DoRejected(signature(lp.f), signature(lp.g),
                      Max(0, lp.g.args - (lp.g.outputs - 1)))
        THEN /\ lp.pc = "failed" /\ lp.status = "error" /\ lp.err \in {"condition", "net"}
             /\ lp.calls_f = 0 /\ lp.calls_g = 0 /\ lp.stack = lp.entry
        ELSE lp.err \notin {"condition", "net"}

\* C12 witness: a condition with an output, a body that adds a value each turn:
\* do returned the error of the net stack change
C12_Witness ==
    /\ lp.pc = "failed" /\ lp.err = "net"
    /\ lp.f = FnSig(1, 2) /\ lp.g = FnSig(1, 1)

(***************************************************************************)
(* repeat                                                                  *)
(***************************************************************************)
\* largest whole count of repetitions asked for
MaxReps == 2
\* calls one repeat may make before the model stops following it
MaxCalls == 3

\* f64 as far as repeat looks at it: the halves h / 2, the two infinities, NaN
Num(h) == [kind |-> "fin", h |-> h]
Infinity == [kind |-> "inf", h |-> 1]
NegInfinity == [kind |-> "inf", h |-> -1]
NaN == [kind |-> "nan", h |-> 0]

\* f64::is_infinite: NaN is not infinite
is_infinite(n) == n.kind = "inf"
\* n < 0.0: every comparison with NaN is false
is_negative(n) == n.kind # "nan" /\ n.h < 0
\* n.fract().abs() > f64::EPSILON: false of NaN, whose fract is NaN
has_fraction(n) == n.kind = "fin" /\ n.h % 2 # 0
\* n.abs() as usize of a number that is not infinite: the cast takes NaN to 0
abs_as_usize(n) == IF n.kind = "nan" THEN 0 ELSE (IF n.h < 0 THEN -n.h ELSE n.h) \div 2

\* Function::invert: [ok, f]
invert(f) ==
    IF f = FnInc THEN [ok |-> TRUE, f |-> FnDec]
    ELSE IF f = FnDec THEN [ok |-> TRUE, f |-> FnInc]
    ELSE [ok |-> FALSE, f |-> f]

\* a choice that never takes the inverse
repeat_function_uninverted(f, n) == [ok |-> TRUE, f |-> f]

\* let f = if n < 0.0 { f.invert(INVERSE_CONTEXT, env)?.into() } else { f }
repeat_function(f, n) == IF is_negative(n) THEN invert(f) ELSE [ok |-> TRUE, f |-> f]

\* the loop repeat is about to run: left is the count of calls to make, Forever
\* for the loop without an end
Forever == -1
Entered(status, err, f, left) == [status |-> status, err |-> err, f |-> f, left |-> left]

\* repeat from the popped f and n to its loop
repeat_enter(f, n) ==
    IF is_infinite(n)
    THEN IF ~repeat_function(f, n).ok THEN Entered("error", "invert", f, 0)
         ELSE Entered("ok", "", repeat_function(f, n).f, Forever)
    ELSE IF has_fraction(n) THEN Entered("error", "fraction", f, 0)
    ELSE IF ~repeat_function(f, n).ok THEN Entered("error", "invert", f, 0)
    ELSE Entered("ok", "", repeat_function(f, n).f, abs_as_usize(n))

(***************************************************************************)
(* repeat as a machine: the choice of the function, then call after call   *)
(***************************************************************************)
RepeatFns == {FnInc, FnDec, FnPop}
RepeatCounts == {Num(h) : h \in -2 * MaxReps..2 * MaxReps} \cup {Infinity, NegInfinity, NaN}
RepeatStacks == {<<>>, <<0>>, <<0, 0>>}

\* repeat after f and n were popped, the stack under them being st
RepeatGiven(f, n, st) ==
    [pc |-> "entry", kind |-> "repeat", f |-> f, n |-> n, stack |-> st, entry |-> st,
     fn |-> f, left |-> 0, calls |-> <<>>, status |-> "ok", err |-> ""]

InitRepeat ==
    /\ Aside("repeat")
    /\ lp \in {RepeatGiven(f, n, st) : f \in RepeatFns, n \in RepeatCounts, st \in RepeatStacks}

RepeatEntered(r) ==
    lp' = [lp EXCEPT !.pc = IF r.status = "ok" THEN "looping" ELSE "returned",
                     !.fn = r.f, !.left = r.left, !.status = r.status, !.err = r.err]

RepeatEnter ==
    /\ lp.pc = "entry"
    /\ RepeatEntered(repeat_enter(lp.f, lp.n))
    /\ UNCHANGED compilerVars

RepeatCalled(r) ==
    lp' = [lp EXCEPT !.pc = IF r.ok THEN "looping" ELSE "returned",
                     !.stack = r.stack, !.calls = Append(@, lp.fn.name),
                     !.left = IF @ > 0 THEN @ - 1 ELSE @,
                     !.status = IF r.ok THEN "ok" ELSE "error",
                     !.err = IF r.ok THEN "" ELSE "call"]

\* env.call(f.clone())? inside either loop
RepeatCall ==
    /\ lp.pc = "looping" /\ lp.left # 0
    /\ Len(lp.calls) < MaxCalls
    /\ RepeatCalled(call(lp.fn, lp.stack))
    /\ UNCHANGED compilerVars

\* the for loop has made its calls: Ok(())
RepeatReturn ==
    /\ lp.pc = "looping" /\ lp.left = 0
    /\ lp' = [lp EXCEPT !.pc = "returned"]
    /\ UNCHANGED compilerVars

NextRepeat == RepeatEnter \/ RepeatCall \/ RepeatReturn

SpecRepeat == InitRepeat /\ [][NextRepeat]_vars

(***************************************************************************)
(* Properties of repeat                                                    *)
(***************************************************************************)
RECURSIVE Calls(_, _, _)
\* k calls of f one after the other from the stack st, ended by the first call
\* that fails: [ok, stack]
Calls(f, k, st) ==
    IF k = 0 THEN [ok |-> TRUE, stack |-> st]
    ELSE IF ~call(f, st).ok THEN call(f, st)
    ELSE Calls(f, k - 1, call(f, st).stack)

\* repeat returned, having been asked for a whole number of repetitions
RepeatedWhole == lp.pc = "returned" /\ lp.n.kind = "fin" /\ lp.n.h % 2 = 0

\* the calls made were all calls of f, as many as k when none of them failed, and
\* they left what k calls of f in sequence leave
CalledOnly(f, k) ==
    /\ \A i \in 1..Len(lp.calls) : lp.calls[i] = f.name
    /\ Len(lp.calls) <= k
    /\ lp.status = "ok" => Len(lp.calls) = k
    /\ lp.status = "error" => lp.err = "call"
    /\ (lp.status = "ok") = Calls(f, k, lp.entry).ok
    /\ lp.stack = Calls(f, k, lp.entry).stack

\* C13: with a count n >= 0 repeat calls f n times in sequence; with a count -n,
\* n > 0, and an f that has an inverse it calls the inverse n times and never f,
\* which is what repeat with the count n does for the inverse; with a negative
\* count and an f without inverse it returns an error and calls nothing. (A call
\* that fails ends the sequence of calls with its error.)
C13_RepeatInverse ==
    RepeatedWhole =>
        IF lp.n.h >= 0 THEN CalledOnly(lp.f, lp.n.h \div 2)
        ELSE IF invert(lp.f).ok THEN CalledOnly(invert(lp.f).f, (-lp.n.h) \div 2)
        ELSE lp.status = "error" /\ lp.err = "invert" /\ lp.calls = <<>> /\ lp.stack = lp.entry

\* C13 witness: repeat with the count -2 and the successor called the
\* predecessor twice and returned
C13_Witness ==
    /\ RepeatedWhole /\ lp.n = Num(-4) /\ lp.f = FnInc
    /\ lp.status = "ok" /\ lp.calls = <<"dec", "dec">>
    /\ lp.entry = <<0>> /\ lp.stack = <<-2>>

\* C14: with a count that is not finite (either infinity, or NaN) repeat never
\* returns Ok: its loop has no count to reach, and it returns only with the
\* error of a call (or of the inverse it could not take)
C14_NonFiniteNeverReturnsOk ==
    lp.n.kind \in {"inf", "nan"} =>
        /\ lp.pc = "looping" => lp.left = Forever
        /\ lp.pc = "returned" => lp.status = "error" /\ lp.err \in {"call", "invert"}

\* what the code keeps of C14: with an infinite count repeat returns only with
\* an error
RepeatInfinite ==
    lp.n.kind = "inf" =>
        /\ lp.pc = "looping" => lp.left = Forever
        /\ lp.pc = "returned" => lp.status = "error" /\ lp.err \in {"call", "invert"}

(***************************************************************************)
(* Selector as text, Function as the bytes of a NanBox                     *)
(***************************************************************************)
\* longest string handed to Selector::from_str
MaxStr == 6

\* Selector::outputs: the position of the first zero byte, 5 when there is none
outputs(sel) ==
    IF \E i \in 1..5 : sel[i] = 0
    THEN (CHOOSE i \in 1..5 : sel[i] = 0 /\ \A j \in 1..(i - 1) : sel[j] # 0) - 1
    ELSE 5

RECURSIVE selector_fmt(_, _)
\* Display for Selector from the byte at i on: a letter for each byte up to the
\* first zero
selector_fmt(sel, i) ==
    IF i > 5 \/ sel[i] = 0 THEN <<>>
    ELSE <<SelectorLetters[sel[i]]>> \o selector_fmt(sel, i + 1)

selector_to_string(sel) == selector_fmt(sel, 1)

\* u32::to_le_bytes and u32::from_le_bytes
to_le_bytes(k) ==
    <<k % 256, (k \div 256) % 256, (k \div 65536) % 256, (k \div 16777216) % 256>>
\* the bytes read with the most significant first
from_be_bytes(b) == b[4] + 256 * b[3] + 65536 * b[2] + 16777216 * b[1]
from_le_bytes(b) == b[1] + 256 * b[2] + 65536 * b[3] + 16777216 * b[4]

\* transmute between a Primitive and its two bytes
primitive_bytes(p) == IF p = "Add" THEN <<7, 0>> ELSE <<1, 2>>
primitive_of_bytes(b) == CHOOSE p \in PrimitiveAll : primitive_bytes(p) = b

\* NanBoxable for [u8; 5] and [u8; 6]: the bytes in order in the six bytes of
\* the payload, zeros after them
nan_box(bytes) == [i \in 1..6 |-> IF i <= Len(bytes) THEN bytes[i] ELSE 0]

into_nan_box(f) ==
    CASE f.tag = "Code" -> nan_box(<<0>> \o to_le_bytes(f.k))
      [] f.tag = "Primitive" -> nan_box(<<1>> \o primitive_bytes(f.prim) \o <<0, 0>>)
      [] f.tag = "Selector" -> nan_box(<<2>> \o f.sel)

\* NoFunction stands for unreachable!()
from_nan_box(n) ==
    CASE n[1] = 0 -> Code(from_le_bytes(SubSeq(n, 2, 5)))
      [] n[1] = 1 -> Primitive(primitive_of_bytes(SubSeq(n, 2, 3)))
      [] n[1] = 2 -> SelectorFn(SubSeq(n, 2, 6))
      [] OTHER -> NoFunction

(***************************************************************************)
(* The conversions of function.rs applied to bounded inputs                *)
(***************************************************************************)
\* the characters of the strings: three letters of a selector and one beyond
Chars == {"a", "b", "e", "f"}
Strings == UNION {[1..n -> Chars] : n \in 0..MaxStr}
\* starts of function bodies up to the largest the model's integers hold
Codes == {0, 1, 255, 256, 258, 65535, 65536, 16777216, 16909060, 2147483647}
SelectorStrings == {<<"a">>, <<"b", "a", "b">>, <<"e", "d", "c", "b", "a">>, <<"e", "e">>}
Functions ==
    {Code(k) : k \in Codes} \cup {Primitive(p) : p \in PrimitiveAll}
        \cup {SelectorFn(selector_from_str(s)) : s \in SelectorStrings}

FnGiven(kind, s, f) ==
    [pc |-> "given", kind |-> kind, s |-> s, sel |-> <<>>, text |-> <<>>,
     f |-> f, bytes |-> <<>>, back |-> NoFunction]

InitFunction ==
    /\ Aside("function")
    /\ lp \in {FnGiven("str", s, NoFunction) : s \in Strings}
              \cup {FnGiven("fn", <<>>, f) : f \in Functions}

\* s.parse::<Selector>()
Parse ==
    /\ lp.pc = "given" /\ lp.kind = "str"
    /\ lp' = [lp EXCEPT !.pc = "parsed", !.sel = selector_from_str(lp.s)]
    /\ UNCHANGED compilerVars

\* the parsed Selector is written out
Format ==
    /\ lp.pc = "parsed" /\ lp.sel # <<>>
    /\ lp' = [lp EXCEPT !.pc = "formatted", !.text = selector_to_string(lp.sel)]
    /\ UNCHANGED compilerVars

Encode ==
    /\ lp.pc = "given" /\ lp.kind = "fn"
    /\ lp' = [lp EXCEPT !.pc = "boxed", !.bytes = into_nan_box(lp.f)]
    /\ UNCHANGED compilerVars

Decode ==
    /\ lp.pc = "boxed"
    /\ lp' = [lp EXCEPT !.pc = "unboxed", !.back = from_nan_box(lp.bytes)]
    /\ UNCHANGED compilerVars

NextFunction == Parse \/ Format \/ Encode \/ Decode

SpecFunction == InitFunction /\ [][NextFunction]_vars

(***************************************************************************)
(* Properties of Selector and of the packed Function                       *)
(***************************************************************************)
\* the letters a..e
SelectorChars == {"a", "b", "c", "d", "e"}
\* the place of each letter in the alphabet
LetterPlace(ch) == (("a" :> 1) @@ ("b" :> 2) @@ ("c" :> 3) @@ ("d" :> 4) @@ ("e" :> 5))[ch]
LargestPlace(s) == CHOOSE m \in 1..5 : (\E i \in 1..Len(s) : LetterPlace(s[i]) = m)
                                        /\ \A i \in 1..Len(s) : LetterPlace(s[i]) <= m

\* C15: a string that parses is given back by formatting the parsed Selector;
\* min_inputs is the largest letter position of the string and outputs is the
\* number of its characters
C15_SelectorLaw ==
    /\ lp.pc = "formatted" => lp.text = lp.s
    /\ lp.pc \in {"parsed", "formatted"} /\ lp.sel # <<>> =>
           /\ selector_min_inputs(lp.sel) = LargestPlace(lp.s)
           /\ outputs(lp.sel) = Len(lp.s)

\* C15 witness: the string bab was parsed and formatted
C15_Witness ==
    /\ lp.pc = "formatted" /\ lp.s = <<"b", "a", "b">>
    /\ lp.sel = <<2, 1, 2, 0, 0>>

\* C16: a string parses exactly when it has 1 to 5 characters, all of them among
\* a..e, and a parsed Selector is non-zero digits followed by zero bytes only
C16_SelectorParses ==
    lp.pc = "parsed" =>
        /\ lp.sel # <<>> <=> /\ Len(lp.s) \in 1..5
                             /\ \A i \in 1..Len(lp.s) : lp.s[i] \in SelectorChars
        /\ lp.sel # <<>> =>
               /\ DOMAIN lp.sel = 1..5
               /\ \A i \in 1..5 : lp.sel[i] \in (IF i <= Len(lp.s) THEN 1..5 ELSE {0})

\* C16 witness: a string of six letters of a selector was rejected
C16_Witness ==
    /\ lp.pc = "parsed" /\ lp.sel = <<>>
    /\ Len(lp.s) = 6 /\ \A i \in 1..6 : lp.s[i] \in SelectorChars

\* the tag byte and the count of payload bytes of each variant
TagOf(f) == CASE f.tag = "Code" -> 0 [] f.tag = "Primitive" -> 1 [] f.tag = "Selector" -> 2
PayloadOf(f) == CASE f.tag = "Code" -> 4 [] f.tag = "Primitive" -> 2 [] f.tag = "Selector" -> 5

\* C17: a Function decoded from its bytes is the Function that was encoded; the
\* first byte is the tag of the variant, the bytes after the payload are zero,
\* the payload of Code(k) is k with the least significant byte first, and no
\* other Function has the same bytes
C17_NanBoxRoundTrip ==
    /\ lp.pc = "unboxed" => lp.back = lp.f
    /\ lp.pc \in {"boxed", "unboxed"} =>
           /\ Len(lp.bytes) = 6
           /\ lp.bytes[1] = TagOf(lp.f)
           /\ \A i \in (2 + PayloadOf(lp.f))..6 : lp.bytes[i] = 0
           /\ lp.f.tag = "Code" =>
                  \A i \in 0..3 : lp.bytes[2 + i] = (lp.f.k \div (IF i = 0 THEN 1 ELSE IF i = 1 THEN 256 ELSE IF i = 2 THEN 65536 ELSE 16777216)) % 256
           /\ \A f2 \in Functions : f2 # lp.f => into_nan_box(f2) # lp.bytes

\* C17 witness: Code(258) went through the bytes 0, 2, 1, 0, 0, 0
C17_Witness ==
    /\ lp.pc = "unboxed" /\ lp.f = Code(258)
    /\ lp.bytes = <<0, 2, 1, 0, 0, 0>>

(***************************************************************************)
(* ungroup on what a function left of the grouped value                    *)
(***************************************************************************)
\* C18: ungroup does not panic: whatever the saved indices and the transformed
\* array are, one with fewer rows than the largest index + 1 included, it pushes
\* a result or returns a runtime error
C18_UngroupNeverPanics ==
    lp.pc = "undone" /\ lp.kind = "group" => lp.status \in {"ok", "error"}

(***************************************************************************)
(* rank_to_depth                                                           *)
(***************************************************************************)
\* largest rank of an array handed to rank_to_depth
MaxRank == 4

ISizeMin == -ISizeMax - 1

\* Option<isize>
Some(d) == [some |-> TRUE, d |-> d]
None == [some |-> FALSE, d |-> 0]
unwrap_or(o, v) == IF o.some THEN o.d ELSE v

Min(a, b) == IF a <= b THEN a ELSE b

\* isize as usize: a negative number becomes a usize above isize::MAX, which
\* ISizeMax stands for here, being above every rank
as_usize(x) == IF x >= 0 THEN x ELSE ISizeMax

\* usize - usize: [ok, value], not ok when the subtraction underflows
usize_sub(a, b) == [ok |-> a >= b, value |-> IF a >= b THEN a - b ELSE 0]

\* the negative branch without its .max(0)
rank_to_depth_unclamped(declared_rank, array_rank) ==
    usize_sub(array_rank,
              IF unwrap_or(declared_rank, array_rank) < 0
              THEN as_usize(array_rank + unwrap_or(declared_rank, array_rank))
              ELSE Min(as_usize(unwrap_or(declared_rank, array_rank)), array_rank))

rank_to_depth(declared_rank, array_rank) ==
    usize_sub(array_rank,
              IF unwrap_or(declared_rank, array_rank) < 0
              THEN as_usize(Max(array_rank + unwrap_or(declared_rank, array_rank), 0))
              ELSE Min(as_usize(unwrap_or(declared_rank, array_rank)), array_rank))

DeclaredRanks ==
    {None, Some(ISizeMin), Some(ISizeMax)} \cup {Some(d) : d \in -(MaxRank + 2)..(MaxRank + 2)}

InitRanks ==
    /\ Aside("ranks")
    /\ lp \in {[pc |-> "given", kind |-> "rank", declared |-> o, actual |-> r,
                depth |-> usize_sub(0, 0)] : o \in DeclaredRanks, r \in 0..MaxRank}

RankToDepth ==
    /\ lp.pc = "given"
    /\ lp' = [lp EXCEPT !.pc = "returned", !.depth = rank_to_depth(lp.declared, lp.actual)]
    /\ UNCHANGED compilerVars

NextRanks == RankToDepth

SpecRanks == InitRanks /\ [][NextRanks]_vars

\* C19: rank_to_depth gives 0 for no declared rank, actual - max(0, actual + d)
\* for a negative d and actual - min(d, actual) for a d >= 0; the subtraction
\* does not underflow and the result is in 0..actual
C19_RankToDepth ==
    lp.pc = "returned" =>
        /\ lp.depth.ok
        /\ lp.depth.value \in 0..lp.actual
        /\ lp.depth.value =
               IF ~lp.declared.some THEN 0
               ELSE IF lp.declared.d < 0
               THEN lp.actual - (IF lp.actual + lp.declared.d > 0 THEN lp.actual + lp.declared.d ELSE 0)
               ELSE lp.actual - (IF lp.declared.d < lp.actual THEN lp.declared.d ELSE lp.actual)

\* C19 witness: a declared rank of -6 for an array of rank 4, depth 4
C19_Witness ==
    /\ lp.pc = "returned" /\ lp.declared = Some(-6) /\ lp.actual = 4
    /\ lp.depth = [ok |-> TRUE, value |-> 4]

(***************************************************************************)
(* Compiler::ident after some bindings were loaded                         *)
(***************************************************************************)
\* bindings loaded before the identifier is compiled
MaxBinds == 2

Idup == <<"d", "u", "p">>
Iadd == <<"a", "d", "d">>
Ipi == <<"p", "i">>
\* names a program binds: one that reads as a selector, one that names a
\* primitive, a plain one and one of a function
BindNames == {Iab, Idup, Iq, IF_}
\* the identifiers compiled
IdentNames == BindNames \cup {Iadd, Ipi, Ix, <<"e", "a", "e", "a", "e">>, <<"a", "a", "a", "a", "a", "a">>}

InitIdent ==
    /\ global_instrs = Default.global_instrs
    /\ in_progress_functions = Default.in_progress_functions
    /\ bindings = Default.bindings
    /\ errors = Default.errors
    /\ assembly = Default.assembly
    /\ vm = Default.vm
    /\ phase = "ident"
    /\ budget = MaxBinds
    /\ last = [op |-> "new", ok |-> TRUE, rt |-> FALSE, stack |-> <<>>, at |-> At(Default.vm, 0),
               pre |-> Default]
    /\ buffered = <<>>
    /\ lp = [pc |-> "open", kind |-> "ident", name |-> <<>>, call |-> FALSE, pre |-> Default]

\* load_str of one binding of the name
Bind ==
    /\ lp.pc = "open" /\ budget > 0
    /\ \E name \in BindNames :
         Returned("load", load_impl(Current, <<ItemBinding(name, <<WNumber(1)>>)>>, <<>>), 1)
    /\ UNCHANGED <<phase, lp>>

\* the compiler comes to an identifier among the words of the next input
Ident ==
    /\ lp.pc = "open"
    /\ \E name \in IdentNames, called \in BOOLEAN :
         /\ Become(ident(Current, name, called))
         /\ lp' = [lp EXCEPT !.pc = "resolved", !.name = name, !.call = called, !.pre = Current]
    /\ UNCHANGED <<phase, budget, last, buffered>>

NextIdent == Bind \/ Ident

SpecIdent == InitIdent /\ [][NextIdent]_vars

\* the instructions the identifier was compiled to
Emitted == SubSeq(global_instrs, Len(lp.pre.global_instrs) + 1, Len(global_instrs))

\* the instructions of an identifier: one for what it resolved to, and the call
Resolved(instr) ==
    /\ Emitted = IF lp.call THEN <<instr, Call(lp.pre.assembly.spans)>> ELSE <<instr>>
    /\ assembly.spans = lp.pre.assembly.spans + (IF lp.call THEN 1 ELSE 0)

\* what an entry of bindings is compiled to
InstrOfBound(bound) ==
    CASE bound.tag = "Global" -> [op |-> "CopyGlobal", idx |-> bound.index]
      [] bound.tag = "Constant" -> [op |-> "Constant", idx |-> bound.index]
      [] OTHER -> [op |-> "Push", idx |-> 0]

\* C20: an identifier is resolved by the first of: its entry in bindings; the
\* primitive of that name; the Selector it spells when it is 1..5 letters of
\* a..e; failing all three one UnknownBinding error is recorded and a Push of the
\* default value is emitted all the same. A binding of a name that spells a
\* selector is therefore what the name resolves to
C20_IdentResolution ==
    lp.pc = "resolved" =>
        IF \E p \in lp.pre.bindings : p[1] = lp.name
        THEN \A p \in lp.pre.bindings : p[1] = lp.name =>
                 /\ errors = lp.pre.errors
                 /\ Resolved(Emitted[1])
                 /\ [op |-> Emitted[1].op, idx |-> Emitted[1].idx] = InstrOfBound(p[2])
                 /\ p[2].tag \in {"Function", "Primitive"} => Emitted[1].val = FnVal(p[2].f)
        ELSE IF primitive_from_name(lp.name) # ""
        THEN errors = lp.pre.errors /\ Resolved(Push(FnVal(Primitive(primitive_from_name(lp.name)))))
        ELSE IF Len(lp.name) \in 1..5 /\ \A i \in 1..Len(lp.name) : lp.name[i] \in SelectorChars
        THEN /\ errors = lp.pre.errors
             /\ Resolved(Push(FnVal(SelectorFn(
                    [i \in 1..5 |-> IF i <= Len(lp.name) THEN LetterPlace(lp.name[i]) ELSE 0]))))
        ELSE errors = Append(lp.pre.errors, "UnknownBinding") /\ Resolved(Push(DefaultVal))

\* C20 witness: ab was bound as a global and then compiled as an identifier
\* with a call: it was compiled to the copy of the global, not to the selector
C20_Witness ==
    /\ lp.pc = "resolved" /\ lp.name = Iab /\ lp.call
    /\ \E p \in lp.pre.bindings : p[1] = Iab /\ p[2].tag = "Global"
    /\ Emitted[1].op = "CopyGlobal"

(***************************************************************************)
(* collapse_groups as a machine: the pops, one call per group, the push    *)
(***************************************************************************)
\* pops that take the indices from the top of the stack in both branches
collapse_pops_indices_first(f, st) ==
    IF Len(st) < 1 THEN [status |-> "error", err |-> "pop", stack |-> <<>>, acc |-> Scalar(0),
                         ints |-> <<>>, values |-> List(<<>>)]
    ELSE IF ~as_ints(Top(st, 1)).ok
    THEN [status |-> "error", err |-> "ints", stack |-> Pop(st, 1), acc |-> Scalar(0),
          ints |-> <<>>, values |-> List(<<>>)]
    ELSE IF Len(st) < 2 THEN [status |-> "error", err |-> "pop", stack |-> <<>>, acc |-> Scalar(0),
                              ints |-> <<>>, values |-> List(<<>>)]
    ELSE [status |-> "ok", err |-> "", stack |-> Pop(st, 2), acc |-> Scalar(0),
          ints |-> as_ints(Top(st, 1)).ints, values |-> Top(st, 2)]

\* the pops of the two branches of collapse_groups: the accumulator of the 2
\* branch, the indices, the array
collapse_pops(f, st) ==
    LET k == IF f.args = 2 THEN 1 ELSE 0
        failed(err, left) ==
            [status |-> "error", err |-> err, stack |-> left, acc |-> Scalar(0),
             ints |-> <<>>, values |-> List(<<>>)]
    IN IF Len(st) < k + 1 THEN failed("pop", <<>>)
       ELSE IF ~as_ints(Top(st, k + 1)).ok THEN failed("ints", Pop(st, k + 1))
       ELSE IF Len(st) < k + 2 THEN failed("pop", <<>>)
       ELSE [status |-> "ok", err |-> "", stack |-> Pop(st, k + 2),
             acc |-> IF k = 1 THEN Top(st, 1) ELSE Scalar(0),
             ints |-> as_ints(Top(st, k + 1)).ints, values |-> Top(st, k + 2)]

\* collapse_groups up to its loop, f being popped: [status, err, stack, acc, groups]
collapse_enter(name, f, st) ==
    LET popped == collapse_pops(f, st)
        gs == get_groups(name, popped.values, popped.ints)
        ended(status, err, left) ==
            [status |-> status, err |-> err, stack |-> left, acc |-> popped.acc, groups |-> <<>>]
    IN IF f.args > 2
       THEN [status |-> "error", err |-> "args", stack |-> st, acc |-> Scalar(0), groups |-> <<>>]
       ELSE IF popped.status # "ok" THEN ended("error", popped.err, popped.stack)
       ELSE IF gs.status # "ok" THEN ended(gs.status, "groups", popped.stack)
       ELSE [status |-> "ok", err |-> "", stack |-> popped.stack, acc |-> popped.acc,
             groups |-> gs.groups]

\* what the loop pushes before it calls f: the group, and the accumulator over it
collapse_pushed(f, group, acc) == IF f.args = 2 THEN <<group, acc>> ELSE <<group>>

\* one turn of the loop: push, call f, pop its result: [status, err, stack, result]
collapse_turn(f, group, acc, st) ==
    LET called == call(f, st \o collapse_pushed(f, group, acc))
    IN IF ~called.ok
       THEN [status |-> "error", err |-> "call", stack |-> called.stack, result |-> acc]
       ELSE IF called.stack = <<>>
       THEN [status |-> "error", err |-> "pop", stack |-> <<>>, result |-> acc]
       ELSE [status |-> "ok", err |-> "", stack |-> Pop(called.stack, 1),
             result |-> Top(called.stack, 1)]

\* the end of collapse_groups: the rows made one value, or the accumulator
collapse_push(f, rows, acc, st) ==
    IF f.args = 2 THEN [status |-> "ok", err |-> "", stack |-> Append(st, acc)]
    ELSE IF ~from_row_values(rows).ok THEN [status |-> "error", err |-> "rows", stack |-> st]
    ELSE [status |-> "ok", err |-> "", stack |-> Append(st, from_row_values(rows).value)]

\* what lies on the stack under the arguments of the modifier
CollapseBelow == {<<>>, <<Scalar(9)>>}
CollapseFns == {FnId, FnLen, FnFold, FnTri, FnPop}

\* partition or group after f was popped: the array, the markers or indices and,
\* for a function of two arguments, the accumulator
CollapseGiven(name, A, M, f, below) ==
    [pc |-> "entry", kind |-> "collapse", name |-> name, A |-> A, M |-> M, f |-> f,
     stack |-> below \o (IF f.args = 2 THEN <<A, List(M), Scalar(0)>> ELSE <<A, List(M)>>),
     given |-> below \o (IF f.args = 2 THEN <<A, List(M), Scalar(0)>> ELSE <<A, List(M)>>),
     groups |-> <<>>, rows |-> <<>>, acc |-> Scalar(0), calls |-> <<>>,
     status |-> "ok", err |-> ""]

InitCollapse ==
    /\ Aside("collapse")
    /\ lp \in {CollapseGiven("partition", A, M, f, b) :
                  A \in LoopArrays, M \in PartitionMarkers, f \in CollapseFns, b \in CollapseBelow}
              \cup {CollapseGiven("group", A, M, f, b) :
                  A \in LoopArrays, M \in GroupIndices, f \in CollapseFns, b \in CollapseBelow}

CollapseEntered(r) ==
    lp' = [lp EXCEPT !.pc = CASE r.status = "ok" -> "loop"
                              [] r.status = "panic" -> "panicked"
                              [] OTHER -> "failed",
                     !.stack = r.stack, !.acc = r.acc, !.groups = r.groups,
                     !.status = r.status, !.err = r.err]

\* the signature is matched, the arguments are popped, the groups are made
CollapseEnter ==
    /\ lp.pc = "entry"
    /\ CollapseEntered(collapse_enter(lp.name, lp.f, lp.stack))
    /\ UNCHANGED compilerVars

CollapseCalled(r, pushed) ==
    lp' = [lp EXCEPT !.pc = IF r.status = "ok" THEN "loop" ELSE "failed",
                     !.stack = r.stack, !.status = r.status, !.err = r.err,
                     !.calls = Append(@, pushed),
                     !.rows = IF r.status = "ok" /\ lp.f.args # 2 THEN Append(@, r.result) ELSE @,
                     !.acc = IF r.status = "ok" /\ lp.f.args = 2 THEN r.result ELSE @]

\* f is called on the next group
CollapseCall ==
    /\ lp.pc = "loop"
    /\ Len(lp.calls) < Len(lp.groups)
    /\ CollapseCalled(collapse_turn(lp.f, lp.groups[Len(lp.calls) + 1], lp.acc, lp.stack),
                      collapse_pushed(lp.f, lp.groups[Len(lp.calls) + 1], lp.acc))
    /\ UNCHANGED compilerVars

CollapseReturned(r) ==
    lp' = [lp EXCEPT !.pc = IF r.status = "ok" THEN "done" ELSE "failed",
                     !.stack = r.stack, !.status = r.status, !.err = r.err]

\* the groups are used up: the result is pushed
CollapseReturn ==
    /\ lp.pc = "loop"
    /\ Len(lp.calls) = Len(lp.groups)
    /\ CollapseReturned(collapse_push(lp.f, lp.rows, lp.acc, lp.stack))
    /\ UNCHANGED compilerVars

NextCollapse == CollapseEnter \/ CollapseCall \/ CollapseReturn

SpecCollapse == InitCollapse /\ [][NextCollapse]_vars

\* the machine ends as collapse_groups does when it is taken in one step
CollapseAgrees ==
    lp.pc \in {"done", "failed", "panicked"} /\ lp.f \in LoopFns =>
        /\ lp.status = collapse_groups(lp.name, lp.f, lp.given, <<>>).status
        /\ lp.stack = collapse_groups(lp.name, lp.f, lp.given, <<>>).stack


(***************************************************************************)
(* Properties of partition_groups, group_groups and collapse_groups        *)
(***************************************************************************)
\* the rows (from 1) at which a run of one positive marker begins
RunStarts(m) == {i \in 1..Len(m) : m[i] > 0 /\ (i = 1 \/ m[i - 1] # m[i])}
\* the last row of the run that begins at row s
RunEnd(m, s) ==
    CHOOSE e \in s..Len(m) : (\A j \in s..e : m[j] = m[s]) /\ (e = Len(m) \/ m[e + 1] # m[s])
\* the k-th member of a set of numbers, from 1
Nth(S, k) == CHOOSE x \in S : Cardinality({y \in S : y < x}) = k - 1
\* the maximal runs of rows of A that carry one positive marker, in row order
MaximalRuns(A, m) ==
    [k \in 1..Cardinality(RunStarts(m)) |->
        from_row_arrays_infallible(
            [j \in 1..(RunEnd(m, Nth(RunStarts(m), k)) - Nth(RunStarts(m), k) + 1) |->
                row(A, Nth(RunStarts(m), k) + j - 2)])]

\* partition got its arguments and made, or failed to make, its groups
Partitioned == lp.name = "partition" /\ lp.pc # "entry" /\ lp.f.args <= 2

\* C21: for markers as many as the rows, partition_groups returns the maximal
\* runs of consecutive rows that carry one positive marker, in row order, and no
\* row of a non-positive marker; for markers of another length it returns an
\* error
C21_PartitionGroupsRuns ==
    Partitioned =>
        IF Len(lp.M) = row_count(lp.A)
        THEN lp.pc \notin {"panicked"} /\ lp.err # "groups" /\ lp.groups = MaximalRuns(lp.A, lp.M)
        ELSE lp.pc = "failed" /\ lp.status = "error" /\ lp.err = "groups"

\* the half of C21 the code keeps: the runs, unless the first marker is isize::MAX
PartitionGroupsRunsBelowMax ==
    Partitioned =>
        IF Len(lp.M) # row_count(lp.A)
        THEN lp.pc = "failed" /\ lp.status = "error" /\ lp.err = "groups"
        ELSE IF lp.M # <<>> /\ lp.M[1] = ISizeMax
        THEN lp.pc = "panicked"
        ELSE lp.pc # "panicked" /\ lp.err # "groups" /\ lp.groups = MaximalRuns(lp.A, lp.M)

\* C22: the first row of a positive marker opens a group, whatever the marker:
\* partition_groups never pushes a row while it has no group
C22_FirstPositiveOpensGroup ==
    lp.name = "partition" => lp.pc # "panicked" /\ lp.status # "panic"


\* the largest of a list of numbers that is not empty
Largest(m) == CHOOSE x \in {m[i] : i \in 1..Len(m)} : \A i \in 1..Len(m) : m[i] <= x
\* the rows (from 1) that carry the index g
RowsOf(m, g) == {r \in 1..Len(m) : m[r] = g}
\* bucket g of A under the indices m: the rows of index g in row order
Bucket(A, m, g) ==
    from_row_arrays_infallible([k \in 1..Cardinality(RowsOf(m, g)) |-> row(A, Nth(RowsOf(m, g), k) - 1)])
Buckets(A, m) ==
    IF m = <<>> THEN <<>>
    ELSE [b \in 1..(Max(Largest(m), 0) + 1) |-> Bucket(A, m, b - 1)]

\* group got its arguments, the indices being as many as the rows
Grouped ==
    /\ lp.name = "group" /\ lp.pc # "entry" /\ lp.f.args <= 2
    /\ Len(lp.M) = row_count(lp.A)

\* the loop over the groups ran to its end
LoopEnded == lp.pc = "done" \/ (lp.pc = "failed" /\ lp.err = "rows")

\* C23: for indices as many as the rows, group_groups returns no bucket for an
\* empty index list and otherwise max(max_index, 0) + 1 buckets, bucket g holding
\* in row order the rows of index g and no row of a negative index; the mapped
\* function is called on the buckets in turn, once on each, the empty ones
\* included, when no call fails
C23_GroupBuckets ==
    Grouped =>
        /\ lp.err # "groups"
        /\ lp.groups = Buckets(lp.A, lp.M)
        /\ lp.f.args <= 1 =>
               /\ IsPrefix(lp.calls, [g \in 1..Len(lp.groups) |-> <<lp.groups[g]>>])
               /\ LoopEnded => Len(lp.calls) = Len(lp.groups)

\* C23 witness: three rows of indices 1, -1, 1 were grouped with the count of the
\* rows: two buckets, the first one empty, the second of the first and the last
\* row, the function called once on each
C23_Witness ==
    /\ Grouped /\ lp.pc = "done" /\ lp.f = FnLen
    /\ lp.M = <<1, -1, 1>> /\ lp.A = List(<<1, 2, 3>>)
    /\ lp.groups = <<List(<<>>), List(<<1, 3>>)>>
    /\ Len(lp.calls) = 2
    /\ Top(lp.stack, 1) = List(<<0, 2>>)


RECURSIVE AccAfter(_)
\* the accumulator after the first k groups: the value on top of the stack at
\* entry, then what f leaves for each group with the accumulator over it
AccAfter(k) ==
    IF k = 0 THEN Top(lp.given, 1)
    ELSE Top(call(lp.f, <<lp.groups[k], AccAfter(k - 1)>>).stack, 1)

\* the groups of the array third from the top under the list second from the top
GroupsUnderAcc ==
    IF lp.name = "group" THEN Buckets(Top(lp.given, 3), Top(lp.given, 2).data)
    ELSE MaximalRuns(Top(lp.given, 3), Top(lp.given, 2).data)

\* C24: with a function of 2 arguments collapse_groups pops the accumulator from
\* the top of the stack, then the indices, then the array, calls f once per group
\* in group order with the group and over it the current accumulator, and pushes
\* one value, the last accumulator; with a function of 3 or more arguments it
\* returns an error and pops neither the indices nor the array
C24_CollapseFold ==
    lp.pc # "entry" =>
        /\ lp.f.args = 2 =>
               /\ lp.err \notin {"pop", "ints", "args"}
               /\ lp.err # "groups" =>
                      /\ lp.groups = GroupsUnderAcc
                      /\ IsPrefix(lp.calls, [g \in 1..Len(lp.groups) |-> <<lp.groups[g], AccAfter(g - 1)>>])
                      /\ lp.pc = "loop" => lp.stack = Pop(lp.given, 3)
                      /\ lp.pc \in {"loop", "done"}
                      /\ lp.pc = "done" =>
                             /\ Len(lp.calls) = Len(lp.groups)
                             /\ lp.stack = Append(Pop(lp.given, 3), AccAfter(Len(lp.groups)))
        /\ lp.f.args >= 3 =>
               /\ lp.pc = "failed" /\ lp.status = "error" /\ lp.err = "args"
               /\ lp.stack = lp.given /\ lp.calls = <<>>

\* C24 witness: three rows of indices 1, 0, 1 were grouped and folded over a value
\* that stays on the stack: the bucket of the second row was folded first
C24_Witness ==
    /\ lp.name = "group" /\ lp.pc = "done" /\ lp.f = FnFold
    /\ lp.M = <<1, 0, 1>> /\ lp.A = List(<<1, 2, 3>>)
    /\ lp.given = <<Scalar(9), lp.A, List(lp.M), Scalar(0)>>
    /\ lp.calls = << <<List(<<2>>), Scalar(0)>>, <<List(<<1, 3>>), Scalar(1)>> >>
    /\ lp.stack = <<Scalar(9), Scalar(12)>>


(***************************************************************************)
(* Properties of ungroup                                                   *)
(***************************************************************************)
\* ungroup was called with a function of signature (1, 1)
Ungrouped ==
    lp.pc = "undone" /\ lp.kind = "group" /\ <<lp.g.args, lp.g.outputs>> = <<1, 1>>

\* the rows of f applied to transformed row idx (from 0): none when there is no
\* such row
UntransformedRows(idx) ==
    IF idx < row_count(Top(lp.given, 1))
    THEN into_rows(applied(lp.g, row(Top(lp.given, 1), idx)))
    ELSE <<>>

\* the indices up to the i-th that are the i-th index
DrawnBy(i) == Cardinality({j \in 1..i : lp.M[j] = lp.M[i]})

\* the bucket of the i-th index has no row left for it
NoRowLeft(i) == lp.M[i] >= 0 /\ DrawnBy(i) > Len(UntransformedRows(lp.M[i]))

\* the output row of the i-th index
UngroupedRow(i) ==
    IF lp.M[i] < 0 THEN row(lp.A, i - 1) ELSE UntransformedRows(lp.M[i])[DrawnBy(i)]

\* C25: ungroup with a (1, 1) function leaves one output row per saved index: for
\* the i-th index idx >= 0 the next row not yet drawn of f applied to transformed
\* row idx, for idx < 0 the original row i; when the bucket of some idx >= 0 has
\* no row left it returns the error of the modified length
C25_UngroupRows ==
    Ungrouped =>
        IF \E i \in 1..Len(lp.M) : NoRowLeft(i)
        THEN lp.status = "error" /\ lp.err = "length"
        ELSE /\ lp.status = "ok"
             /\ row_count(Top(lp.stack, 1)) = Len(lp.M)
             /\ \A i \in 1..Len(lp.M) : row(Top(lp.stack, 1), i - 1) = UngroupedRow(i)

\* the first index whose bucket has no row left names a transformed row there is
UngroupRowsFirstShort ==
    \A i \in 1..Len(lp.M) :
        (NoRowLeft(i) /\ \A j \in 1..(i - 1) : ~NoRowLeft(j)) => lp.M[i] < row_count(Top(lp.given, 1))

\* the half of C25 the code keeps: the rows of a returned value, the error of the
\* length when the bucket that runs short is one of the transformed rows
UngroupRowsWhenReturned ==
    Ungrouped =>
        /\ lp.status = "ok" =>
               /\ \A i \in 1..Len(lp.M) : ~NoRowLeft(i)
               /\ row_count(Top(lp.stack, 1)) = Len(lp.M)
               /\ \A i \in 1..Len(lp.M) : row(Top(lp.stack, 1), i - 1) = UngroupedRow(i)
        /\ (\E i \in 1..Len(lp.M) : NoRowLeft(i)) =>
               IF UngroupRowsFirstShort THEN lp.status = "error" /\ lp.err = "length"
               ELSE lp.status = "panic"
        /\ (\A i \in 1..Len(lp.M) : ~NoRowLeft(i)) =>
               lp.status = "ok" \/ (lp.status = "error" /\ lp.err = "rows")


(***************************************************************************)
(* The order of the calls of do                                            *)
(***************************************************************************)
\* the copies of C26: max(0, g.args - (g.outputs - 1))
Copies == Max(0, lp.g.args - (lp.g.outputs - 1))

\* what the positions of the loop say of the calls made so far: g, f, g, f, ...
DoAlternates ==
    /\ lp.pc = "cond" =>
           /\ lp.calls_g = lp.calls_f
           /\ lp.calls_f > 0 => lp.popped = 1
           /\ DoFed => Len(lp.stack) = Len(lp.entry)
    /\ lp.pc = "body" => lp.calls_g = lp.calls_f + 1 /\ lp.popped = 1
    /\ lp.pc = "done" => lp.calls_g = lp.calls_f + 1 /\ lp.popped = 0
    /\ lp.popped \notin {NoCond, 0, 1} =>
           /\ lp.pc = "failed" /\ lp.status = "error" /\ lp.err = "bool"
           /\ lp.calls_g = lp.calls_f + 1

\* a step that calls f: the condition called last popped true
DoBodyStep ==
    lp'.calls_f # lp.calls_f =>
        /\ lp.pc = "body" /\ lp.popped = 1
        /\ lp'.calls_f = lp.calls_f + 1 /\ lp'.calls_g = lp.calls_g

\* a step that calls g with success: g took its arguments from a stack with the
\* copies on it, so that the values under the copied ones are still there and
\* the depth changed by the copies, the arguments, the outputs and the boolean
DoCondStep ==
    lp'.calls_g # lp.calls_g =>
        /\ lp.pc = "cond"
        /\ lp'.calls_g = lp.calls_g + 1 /\ lp'.calls_f = lp.calls_f
        /\ lp'.popped # NoCond /\ DoFed =>
               /\ Len(lp'.stack) = Len(lp.stack) + Copies - lp.g.args + lp.g.outputs - 1
               /\ SubSeq(lp'.stack, 1, Len(lp.stack) + Copies - lp.g.args)
                      = SubSeq(lp.stack, 1, Len(lp.stack) + Copies - lp.g.args)

\* C26: in every run of do the calls alternate g, f, g, ..., g: g is called
\* before each call of f, f only directly after a condition that popped true, the
\* top copy_count values are copied before every call of g, the stack at the start
\* of every turn is as deep as at entry, and a condition that is no boolean ends
\* the loop with an error, f not being called after it
C26_DoCallsAlternate ==
    /\ []DoAlternates
    /\ [][DoBodyStep /\ DoCondStep]_vars

\* C26 witness: a condition of one argument answered true twice and then false,
\* the body was called after each true: three calls of g, two of f, the stack as
\* deep as at entry
C26_Witness ==
    /\ lp.pc = "done" /\ lp.kind = "do"
    /\ lp.g = FnSig(1, 1) /\ lp.f = FnSig(1, 1)
    /\ lp.calls_g = 3 /\ lp.calls_f = 2
    /\ lp.entry = <<1, 2>> /\ lp.stack = <<1, 7>>


(***************************************************************************)
(* The compiler at one function and at one sequence of words               *)
(***************************************************************************)
\* inputs loaded before the function or the words are compiled
MaxDefs == 2

\* what the earlier inputs bind: a function that is a primitive, a function with
\* a body of its own, a global
DefineItems ==
    {ItemBinding(IF_, <<WPrimitive("Add")>>),
     ItemBinding(IG, <<WNumber(1), WNumber(2)>>),
     ItemBinding(Ix, <<WNumber(1)>>)}

FuncIds == {Named(IF_), Named(IG), Anonymous(7)}

WordsInner(body) == [kind |-> "words", body |-> body, prim |-> ""]
\* the closures handed to func_outer: the words of a function or of a capitalised
\* binding, and the word of a modifier with the modifier
FuncInners ==
    {WordsInner(body) : body \in
        {<<>>, <<WNumber(1)>>, <<WNumber(1), WNumber(2)>>, <<WPrimitive("Add")>>,
         <<WIdent(IF_)>>, <<WIdent(IG)>>, <<WIdent(Ix)>>, <<WIdent(Iab)>>, <<WIdent(Iq)>>,
         <<WModified(9, "Dup", WPrimitive("Add"))>>, <<WFunc(8, <<WNumber(3)>>)>>,
         <<WPrimitive("Add"), WIdent(Ix)>>}}
    \cup {[kind |-> "modified", body |-> <<WPrimitive("Add")>>, prim |-> "Dup"]}

\* history: what is compiled (op, id, inner, ws), the Compiler before it (pre) and
\* at the end of the body of the function (mid), the instructions of the body
WordsIdle ==
    [pc |-> "open", kind |-> "words", op |-> "", id |-> Anonymous(0), inner |-> WordsInner(<<>>),
     ws |-> <<>>, pre |-> Default, mid |-> Default, body |-> <<>>]

InitWords ==
    /\ global_instrs = Default.global_instrs
    /\ in_progress_functions = Default.in_progress_functions
    /\ bindings = Default.bindings
    /\ errors = Default.errors
    /\ assembly = Default.assembly
    /\ vm = Default.vm
    /\ phase = "words"
    /\ budget = MaxDefs
    /\ last = [op |-> "new", ok |-> TRUE, rt |-> FALSE, stack |-> <<>>, at |-> At(Default.vm, 0),
               pre |-> Default]
    /\ buffered = <<>>
    /\ lp = WordsIdle

\* load_str of one binding
Define ==
    /\ lp.pc = "open" /\ lp.kind = "words" /\ budget > 0
    /\ \E it \in DefineItems, op \in {"load", "eval"} :
         Returned(op, IF op = "load" THEN load_impl(Current, <<it>>, <<>>)
                      ELSE eval(Current, <<it>>, <<>>), 1)
    /\ UNCHANGED <<phase, lp>>

\* the buffer of the function at the end of func_outer: its body, the closing
\* comment and the Return
func_outer_body(c3) ==
    c3.in_progress_functions[Len(c3.in_progress_functions)] \o <<Comment("CommentEnd"), Return>>

\* the compiler comes to a function among the words of the next input
FuncOuter ==
    /\ lp.pc = "open" /\ lp.kind = "words"
    /\ \E id \in FuncIds, inner \in FuncInners :
         /\ Become(func_outer(Current, id, inner))
         /\ lp' = [lp EXCEPT !.pc = "compiled", !.op = "func", !.id = id, !.inner = inner,
                             !.pre = Current, !.mid = func_outer_inner(Current, inner),
                             !.body = func_outer_body(func_outer_inner(Current, inner))]
    /\ UNCHANGED <<phase, budget, last, buffered>>

\* the sequences of words compiled: numbers, an array, strands, functions, an
\* array of functions, a primitive and a name among them
WordSeqs ==
    {<<>>,
     <<WNumber(1), WNumber(2), WNumber(3)>>,
     <<WArray(<<WNumber(1), WNumber(2)>>), WNumber(3)>>,
     <<WStrand(<<WNumber(1), WNumber(2)>>),
       WArray(<<WNumber(3), WStrand(<<WNumber(4), WNumber(5)>>)>>)>>,
     <<WFunc(7, <<WNumber(1), WNumber(2)>>), WNumber(3)>>,
     <<WFuncArray(<<WFunc(7, <<WNumber(1), WNumber(2)>>), WFunc(8, <<WNumber(3), WNumber(4)>>)>>),
       WNumber(5)>>,
     <<WPrimitive("Add"), WNumber(1), WNumber(2)>>,
     <<WIdent(Ix), WNumber(4), WPrimitive("Dup")>>,
     <<WFunc(7, <<WArray(<<WNumber(1), WFunc(8, <<WNumber(4), WNumber(5)>>)>>), WNumber(3)>>),
       WNumber(2)>>}

\* the compiler comes to a sequence of words of the next input
CompileWords ==
    /\ lp.pc = "open" /\ lp.kind = "words"
    /\ \E ws \in WordSeqs :
         /\ Become(words(Current, ws, TRUE))
         /\ lp' = [lp EXCEPT !.pc = "compiled", !.op = "words", !.ws = ws, !.pre = Current]
    /\ UNCHANGED <<phase, budget, last, buffered>>

\* the words evaluated by eval
EvalSeqs ==
    {<<WNumber(1), WNumber(2)>>,
     <<WPrimitive("Add"), WNumber(1), WNumber(2)>>,
     <<WIdent(Ix)>>,
     <<WIdent(IF_), WNumber(2), WNumber(3)>>,
     <<WStrand(<<WNumber(1), WNumber(2)>>)>>,
     <<WFunc(7, <<WNumber(1)>>)>>}

\* eval of one words item
EvalWords ==
    /\ lp.pc = "open" /\ lp.kind = "words"
    /\ \E ws \in EvalSeqs :
         /\ Returned("eval", eval(Current, <<ItemWords(ws)>>, <<>>), 0)
         /\ lp' = [lp EXCEPT !.pc = "compiled", !.op = "eval", !.ws = ws, !.pre = Current]
    /\ UNCHANGED phase

NextWords == Define \/ FuncOuter \/ CompileWords \/ EvalWords

SpecWords == InitWords /\ [][NextWords]_vars

(***************************************************************************)
(* Properties of func_outer                                                *)
(***************************************************************************)
\* the body is exactly [Comment, Push(f), Call, Comment, Return], f a function
WrapperBody(body) ==
    /\ [i \in 1..Len(body) |-> body[i].op] = <<"CommentFn", "Push", "Call", "CommentEnd", "Return">>
    /\ body[2].val.t = "fn"

\* the function is registered for the id, bound to the id when it is Named, and
\* pushed at the enclosing site, the buffer of the function being gone
RegisteredAs(f) ==
    /\ contains_key(assembly.function_ids, f) /\ get(assembly.function_ids, f) = lp.id
    /\ lp.id.tag = "Named" =>
           contains_key(bindings, lp.id.name) /\ get(bindings, lp.id.name) = BoundFunction(f)
    /\ lp.id.tag # "Named" => bindings = lp.pre.bindings
    /\ Emitted = <<Push(FnVal(f))>>
    /\ in_progress_functions = lp.pre.in_progress_functions

\* C27: when the body a function was compiled to is exactly [Comment, Push(f),
\* Call, Comment, Return] with f a function, func_outer appends nothing to the
\* Assembly (instrs and start are as the compiled body left them), registers f
\* itself for the id, binds a Named id to f and emits Push(f) at the enclosing
\* site; for every other body it appends the body at the old start, moves start
\* to the new end and registers Code(old start)
C27_FuncOuterWrapper ==
    lp.pc = "compiled" /\ lp.op = "func" =>
        IF WrapperBody(lp.body)
        THEN /\ assembly.instrs = lp.mid.assembly.instrs
             /\ assembly.start = lp.mid.assembly.start
             /\ RegisteredAs(lp.body[2].val.f)
        ELSE /\ Len(assembly.instrs) = lp.mid.assembly.start + Len(lp.body)
             /\ SubSeq(assembly.instrs, 1, lp.mid.assembly.start) = lp.mid.assembly.instrs
             /\ SubSeq(assembly.instrs, lp.mid.assembly.start + 1, Len(assembly.instrs)) = lp.body
             /\ assembly.start = Len(assembly.instrs)
             /\ RegisteredAs(Code(lp.mid.assembly.start))

\* C27 witness: G was bound by eval to the function at Code(0), and F is then
\* compiled with the body G: F is Code(0) itself and nothing was appended
C27_Witness ==
    /\ lp.pc = "compiled" /\ lp.op = "func"
    /\ lp.id = Named(IF_) /\ lp.inner = WordsInner(<<WIdent(IG)>>)
    /\ contains_key(lp.pre.bindings, IG)
    /\ get(lp.pre.bindings, IG) = BoundFunction(Code(0))
    /\ WrapperBody(lp.body)
    /\ contains_key(bindings, IF_)
    /\ get(bindings, IF_) = BoundFunction(Code(0))
    /\ get(assembly.function_ids, Code(0)) = Named(IF_)
    /\ assembly.instrs = lp.pre.assembly.instrs
    /\ Emitted = <<Push(FnVal(Code(0)))>>


(***************************************************************************)
(* Properties of words                                                     *)
(***************************************************************************)
RECURSIVE TextOrder(_, _), FuncsOf(_, _), Nesting(_, _, _)

\* what a word leaves in the buffer it is compiled into, as numbers: a number
\* itself, a primitive 100 or 101, a function 200 + its span; the words of an
\* array or a strand leave theirs in textual order
Mark(w) ==
    CASE w.w = "Number" -> <<w.num>>
      [] w.w = "Primitive" -> <<IF w.prim = "Add" THEN 100 ELSE 101>>
      [] w.w = "Func" -> <<200 + w.span>>
      [] OTHER -> <<>>

\* the marks of the words ws[i..], in textual order
TextOrder(ws, i) ==
    IF i > Len(ws) THEN <<>>
    ELSE (IF ws[i].w \in {"Array", "Strand", "FuncArray"} THEN TextOrder(ws[i].body, 1)
          ELSE Mark(ws[i])) \o TextOrder(ws, i + 1)

\* the function words of ws[i..], at any depth
FuncsOf(ws, i) ==
    IF i > Len(ws) THEN {}
    ELSE (IF ws[i].w = "Func" THEN {ws[i]} ELSE {}) \cup FuncsOf(ws[i].body, 1) \cup FuncsOf(ws, i + 1)

\* the mark of an instruction: a pushed number, primitive or function
InstrMark(instr) ==
    IF instr.op # "Push" THEN <<>>
    ELSE IF instr.val.t = "num" THEN <<instr.val.n>>
    ELSE IF instr.val.t # "fn" THEN <<>>
    ELSE IF instr.val.f.tag = "Primitive" THEN <<IF instr.val.f.prim = "Add" THEN 100 ELSE 101>>
    ELSE IF instr.val.f.tag = "Code" /\ contains_key(assembly.function_ids, instr.val.f)
         THEN <<200 + get(assembly.function_ids, instr.val.f).span>>
    ELSE <<>>

\* the marks of a buffer, in the order of the buffer
BufferOrder(instrs) ==
    LET marks[i \in 0..Len(instrs)] == IF i = 0 THEN <<>> ELSE marks[i - 1] \o InstrMark(instrs[i])
    IN marks[Len(instrs)]

\* every EndArray of instrs[i..] closes a BeginArray that came before it, and
\* d arrays are open at i; none is left open at the end
Nesting(instrs, i, d) ==
    IF i > Len(instrs) THEN d = 0
    ELSE IF instrs[i].op = "BeginArray" THEN Nesting(instrs, i + 1, d + 1)
    ELSE IF instrs[i].op \in {"EndArray", "EndArrayCall"} THEN d > 0 /\ Nesting(instrs, i + 1, d - 1)
    ELSE Nesting(instrs, i + 1, d)

\* the buffer holds the words in reverse textual order, its arrays closed
HoldsReversed(instrs, ws) ==
    /\ BufferOrder(instrs) = Reverse(TextOrder(ws, 1))
    /\ Nesting(instrs, 1, 0)

\* the instructions of the function compiled for the function word fw
BodyOf(fw) ==
    LET h == CHOOSE p \in assembly.function_ids : p[2] = Anonymous(fw.span)
        from == h[1].k + 1
        to == CHOOSE j \in from..Len(assembly.instrs) :
                  /\ assembly.instrs[j].op = "Return"
                  /\ \A m \in from..(j - 1) : assembly.instrs[m].op # "Return"
    IN SubSeq(assembly.instrs, from, to)

\* C28: in every sequence of words that was compiled (the top level, the body
\* of each function, with the arrays, strands and function arrays in them) the
\* instructions of a later word come before those of an earlier word, so the
\* buffer holds the words in reverse textual order, and every BeginArray of a
\* buffer is matched by a later EndArray of the same buffer
C28_WordsReversed ==
    lp.pc = "compiled" /\ lp.op = "words" =>
        /\ HoldsReversed(Emitted, lp.ws)
        /\ \A fw \in FuncsOf(lp.ws, 1) :
             /\ \E p \in assembly.function_ids : p[2] = Anonymous(fw.span)
             /\ HoldsReversed(BodyOf(fw), fw.body)

\* C28 witness: (1 2) 3 was compiled: the buffer holds 3 and then the function,
\* and the body of the function holds 2 before 1
C28_Witness ==
    /\ lp.pc = "compiled" /\ lp.op = "words"
    /\ lp.ws = <<WFunc(7, <<WNumber(1), WNumber(2)>>), WNumber(3)>>
    /\ Emitted = <<Push(NumVal(3)), Push(FnVal(Code(lp.pre.assembly.start)))>>
    /\ BufferOrder(BodyOf(lp.ws[1])) = <<2, 1>>


(***************************************************************************)
(* The pending errors between calls                                        *)
(***************************************************************************)
\* C29: on return from every load and every eval the list of pending compile
\* errors is empty, so an error recorded by one call is reported by that call
\* and a later call on error-free source does not fail because of it
C29_NoPendingErrors == last.op \in {"load", "eval"} => errors = <<>>

\* what holds of the code: load takes every pending error with it
LoadTakesErrors == last.op = "load" => errors = <<>>

\* and an eval that leaves errors pending returned Ok, or found errors pending
EvalWordsTakesErrors ==
    last.op = "eval" /\ errors # <<>> => last.ok \/ last.pre.errors # <<>>


(***************************************************************************)
(* eval of a words item after earlier loads and evals                      *)
(***************************************************************************)
\* the result of the instructions of the words ws alone, run from the Vm of c
OwnValues(c, ws) ==
    eval_words([c EXCEPT !.global_instrs = <<>>], reparse(<<ItemWords(ws)>>)[1].words)

\* C30: the stack eval returns for a words item holds the values its own
\* instructions produce and no other: what earlier loads and earlier eval items
\* left in global_instrs is not run with it, and is still in global_instrs when
\* eval returns
C30_EvalRunsOwnInstrs ==
    lp.pc = "compiled" /\ lp.op = "eval" /\ last.ok =>
        /\ OwnValues(lp.pre, lp.ws).ok
        /\ last.stack = OwnValues(lp.pre, lp.ws).stack
        /\ IsPrefix(SelectSeq(lp.pre.global_instrs, NotBegin), SelectSeq(global_instrs, NotBegin))

\* what holds of the code: eval of a words item into an empty buffer returns
\* the values of the item, and leaves the buffer empty
EvalRunsOwnInstrsWhenEmpty ==
    lp.pc = "compiled" /\ lp.op = "eval" /\ last.ok
      /\ SelectSeq(lp.pre.global_instrs, NotBegin) = <<>> =>
        /\ OwnValues(lp.pre, lp.ws).ok
        /\ last.stack = OwnValues(lp.pre, lp.ws).stack
        /\ global_instrs = <<>>

\* the two halves of C30, each alone
EvalStackOwn ==
    lp.pc = "compiled" /\ lp.op = "eval" /\ last.ok => last.stack = OwnValues(lp.pre, lp.ws).stack
EvalKeepsBuffer ==
    lp.pc = "compiled" /\ lp.op = "eval" /\ last.ok =>
        IsPrefix(SelectSeq(lp.pre.global_instrs, NotBegin), SelectSeq(global_instrs, NotBegin))

=============================================================================
